---- MODULE Spec2Model ----
(***************************************************************************)
(* A model of daisy-util: the tree splitter / paginator of lib/dtb.ts and  *)
(* the in-place metadata updaters of lib/dtb.ts, lib/ncx.ts, lib/smil.ts   *)
(* and lib/opf.ts.  A call is a run of the state machine: Init draws the   *)
(* arguments, the actions are the steps of the called function.            *)
(***************************************************************************)
EXTENDS Integers, Sequences, FiniteSets, TLC

VARIABLES
    pc,            \* position of the call: "idle", a loop label, "done" or "threw"
    tree,          \* splitter: the element whose children are split
    tagName,       \* splitter: the tag names of the test
    itemsPerPage,  \* paginateDaisyTree: page size
    basePath,      \* paginateDaisyTree: prefix of the navigation urls
    parts,         \* splitDaisyTreeByTag's parts
    totalParts,    \* splitDaisyTreeByTag's totalParts
    pages,         \* paginateDaisyTree: pages pushed so far / returned
    totalPages,    \* paginateDaisyTree: Math.ceil(totalItems / itemsPerPage)
    i,             \* paginateDaisyTree: loop counter
    fmt,           \* updaters: which updater is called: "dtb", "ncx", "smil" or "opf"
    doc,           \* updaters: the xast tree, mutated in place
    newValues,     \* updaters: the entries of newValue / newMetadata, in key order
    createIfMissing, \* updaters: options.createIfMissing !== false
    updatedKeys,   \* updaters: the updatedKeys set of the running call
    pos,           \* NCX / SMIL: the place visit() has reached (container, offset)
    callNo,        \* updaters: 1 in the first call on the tree, 2 in the second
    docBefore,     \* updaters: the tree as it was when the running call began
    docFirst,      \* updaters: the tree as the first call left it
    fn,            \* parsers and utilities: the function called
    arg,           \* parsers and utilities: the arguments of the call
    ret            \* parsers and utilities: the value returned

splitVars == <<tree, tagName, itemsPerPage, basePath, parts, totalParts, pages, totalPages, i>>

updVars == <<fmt, doc, newValues, createIfMissing, updatedKeys, pos, callNo, docBefore, docFirst>>

libVars == <<fn, arg, ret>>

vars == <<pc, splitVars, updVars, libVars>>

-----------------------------------------------------------------------------
(* Bounds of the model.                                                    *)

MaxChildren == 3

MaxItemsPerPage == 3

MaxPages == 4

MaxMeta == 2

MaxKeys == 2

MaxGrowth == 1

MaxHours == 25

MaxElements == 3

MaxNavPoints == 4

MaxPars == 2

MaxDc == 2

MaxXMeta == 2

MaxNodes == 4

-----------------------------------------------------------------------------
(* JavaScript values.                                                      *)

\* An optional value (a property that may be undefined): <<>> or <<v>>.
None == <<>>

Some(v) == <<v>>

\* The slice holds fresh copies of the items, not the items themselves: a
\* copy is not at the address of the node it was made from.
SliceOfCopies(s, from, to) ==
    LET lo    == IF from < 0 THEN 0 ELSE from
        hi    == IF to > Len(s) THEN Len(s) ELSE to
        items == IF hi <= lo THEN <<>> ELSE SubSeq(s, lo + 1, hi)
    IN  [j \in 1..Len(items) |-> [f \in DOMAIN items[j] \ {"addr"} |-> items[j][f]]]

\* Array.prototype.slice(from, to) on 0-based indices, to exclusive.
Slice(s, from, to) ==
    LET lo == IF from < 0 THEN 0 ELSE from
        hi == IF to > Len(s) THEN Len(s) ELSE to
    IN  IF hi <= lo THEN <<>> ELSE SubSeq(s, lo + 1, hi)

Min(a, b) == IF a < b THEN a ELSE b

-----------------------------------------------------------------------------
(* xast nodes of the splitter's trees.                                     *)

TextNode == [type |-> "text", name |-> "", children |-> <<>>]

CommentNode == [type |-> "comment", name |-> "", children |-> <<>>]

ElementNode(n, ch) == [type |-> "element", name |-> n, children |-> ch]

\* The direct children a tree is built from: text, comment, leaf elements,
\* and an element that holds a nested <p>.
ChildNodes ==
    { TextNode, CommentNode,
      ElementNode("p", <<>>), ElementNode("div", <<>>),
      ElementNode("div", <<ElementNode("p", <<>>), TextNode>>) }

ChildLists == UNION { [1..n -> ChildNodes] : n \in 0..MaxChildren }

\* The children array of a tree: every direct child is a node object of its
\* own, told from an equal node elsewhere by its address.
Addressed(ch) ==
    [j \in 1..Len(ch) |->
        [type |-> ch[j].type, name |-> ch[j].name, children |-> ch[j].children, addr |-> j]]

TagNames == {"p", "div"}

BasePaths == {"/", "/chapter/"}

\* paginateDaisyTree's mapTest: one {type: 'element', name} object per tag name.
mapTest(names) == { [type |-> "element", name |-> n] : n \in names }

\* unist-util-is on an array of property objects: some object has all its
\* properties equal on the node.
Matches(test, node) == \E t \in test : node.type = t.type /\ node.name = t.name

-----------------------------------------------------------------------------
(* splitDaisyTreeByTag.                                                    *)

\* The visitor forgets the parent check and splits at nested matches too.
splitVisitorNoParentCheck(st, index, parent, wrapper) ==
    [ parts     |-> Append(st.parts,
                      [type |-> "root", children |-> Slice(wrapper.children, st.lastIndex, index + 1)]),
      lastIndex |-> index + 1 ]

\* The visitor slices without the matching child.
splitVisitorExclusive(st, index, parent, wrapper) ==
    IF parent # wrapper
    THEN st
    ELSE [ parts     |-> Append(st.parts,
                           [type |-> "root", children |-> Slice(wrapper.children, st.lastIndex, index)]),
           lastIndex |-> index + 1 ]

\* The visitor of splitDaisyTreeByTag, called on every node that passes the
\* test; st is <parts, lastIndex>.  It returns SKIP in both branches.
splitVisitor(st, index, parent, wrapper) ==
    IF parent # wrapper
    THEN st
    ELSE [ parts     |-> Append(st.parts,
                           [type |-> "root", children |-> Slice(wrapper.children, st.lastIndex, index + 1)]),
           lastIndex |-> index + 1 ]

\* visit(wrapper, test, visitor): depth-first pre-order; a node that passes the
\* test is handed to the visitor, whose SKIP keeps the walk out of its
\* children; the children of any other node are walked in order.
RECURSIVE visitSplit(_, _, _, _, _)
visitSplit(st, parent, offset, test, wrapper) ==
    IF offset >= Len(parent.children)
    THEN st
    ELSE LET node == parent.children[offset + 1]
             st1  == IF Matches(test, node)
                     THEN splitVisitor(st, offset, parent, wrapper)
                     ELSE IF Len(node.children) > 0
                          THEN visitSplit(st, node, 0, test, wrapper)
                          ELSE st
         IN  visitSplit(st1, parent, offset + 1, test, wrapper)

\* The trailing part is dropped.
splitNoTail(t, test) ==
    IF Len(t.children) = 0
    THEN [parts |-> <<>>, totalParts |-> 0, children |-> t.children]
    ELSE LET wrapper == [type |-> "root", name |-> "", children |-> t.children]
             st      == visitSplit([parts |-> <<>>, lastIndex |-> 0], wrapper, 0, test, wrapper)
         IN  [parts |-> st.parts, totalParts |-> Len(st.parts), children |-> wrapper.children]

\* The result, and under children the array that tree.children and
\* wrapper.children both name, as the call leaves it.
splitDaisyTreeByTag(t, test) ==
    IF Len(t.children) = 0
    THEN [parts |-> <<>>, totalParts |-> 0, children |-> t.children]
    ELSE LET wrapper == [type |-> "root", name |-> "", children |-> t.children]
             st      == visitSplit([parts |-> <<>>, lastIndex |-> 0], wrapper, 0, test, wrapper)
             all     == IF st.lastIndex < Len(wrapper.children)
                        THEN Append(st.parts,
                               [type |-> "root",
                                children |-> Slice(wrapper.children, st.lastIndex, Len(wrapper.children))])
                        ELSE st.parts
         IN  [parts |-> all, totalParts |-> Len(all), children |-> wrapper.children]

-----------------------------------------------------------------------------
(* paginateDaisyTree.                                                      *)

\* Math.ceil(n / d) for integers, n > 0: Infinity when d = 0.
Infinity == [finite |-> FALSE, n |-> 0]

Finite(n) == [finite |-> TRUE, n |-> n]

\* Math.floor in place of Math.ceil.
CeilDivFloor(n, d) == IF d = 0 THEN Infinity ELSE Finite(n \div d)

CeilDiv(n, d) ==
    IF d = 0 THEN Infinity
    ELSE IF d > 0 THEN Finite((n + d - 1) \div d)
    ELSE Finite(0 - (n \div (0 - d)))

\* i < t for a t that may be Infinity.
Below(k, t) == (~t.finite) \/ k < t.n

\* `${t}` of a number that may be Infinity.
NumStr(t) == IF t.finite THEN ToString(t.n) ELSE "Infinity"

\* The url record drops the base path from prev.
pageUrlNoBase(bp, currentPage, lastPage) ==
    [ current |-> bp \o ToString(currentPage),
      prev    |-> IF currentPage > 1 THEN Some(ToString(currentPage - 1)) ELSE None,
      next    |-> IF Below(currentPage, lastPage) THEN Some(bp \o ToString(currentPage + 1)) ELSE None,
      first   |-> IF currentPage > 1 THEN Some(bp \o "1") ELSE None,
      last    |-> IF Below(currentPage, lastPage) THEN Some(bp \o NumStr(lastPage)) ELSE None ]

\* The url record of one page.
pageUrl(bp, currentPage, lastPage) ==
    [ current |-> bp \o ToString(currentPage),
      prev    |-> IF currentPage > 1 THEN Some(bp \o ToString(currentPage - 1)) ELSE None,
      next    |-> IF Below(currentPage, lastPage) THEN Some(bp \o ToString(currentPage + 1)) ELSE None,
      first   |-> IF currentPage > 1 THEN Some(bp \o "1") ELSE None,
      last    |-> IF Below(currentPage, lastPage) THEN Some(bp \o NumStr(lastPage)) ELSE None ]

\* The page's end is the index after its last part.
makePageEndExclusive(ps, k, ipp, bp, tp) ==
    LET start == k * ipp
        end   == Min(start + ipp, Len(ps))
    IN  [ data        |-> Slice(ps, start, end),
          start       |-> start,
          end         |-> end,
          total       |-> Len(ps),
          currentPage |-> k + 1,
          size        |-> ipp,
          lastPage    |-> tp,
          url         |-> pageUrl(bp, k + 1, tp) ]

\* The page pushed by iteration k of the loop.
makePage(ps, k, ipp, bp, tp) ==
    LET start == k * ipp
        end   == Min(start + ipp, Len(ps))
    IN  [ data        |-> Slice(ps, start, end),
          start       |-> start,
          end         |-> end - 1,
          total       |-> Len(ps),
          currentPage |-> k + 1,
          size        |-> ipp,
          lastPage    |-> tp,
          url         |-> pageUrl(bp, k + 1, tp) ]

-----------------------------------------------------------------------------
(* The calls.                                                              *)

InitSplit ==
    /\ pc = "idle"
    /\ tree \in { ElementNode("container", Addressed(ch)) : ch \in ChildLists }
    /\ tagName \in SUBSET TagNames
    /\ itemsPerPage \in (-1)..MaxItemsPerPage
    /\ basePath \in BasePaths
    /\ parts = <<>>
    /\ totalParts = 0
    /\ pages = <<>>
    /\ totalPages = Finite(0)
    /\ i = 0
    /\ fmt = "none"
    /\ doc = [name |-> "root", children |-> <<>>]
    /\ newValues = <<>>
    /\ createIfMissing = TRUE
    /\ updatedKeys = {}
    /\ pos = [c |-> 1, o |-> 1]
    /\ callNo = 1
    /\ docBefore = doc
    /\ docFirst = <<>>
    /\ fn = "none"
    /\ arg = <<>>
    /\ ret = <<>>

\* A direct call of splitDaisyTreeByTag(tree, test).
CallSplit ==
    /\ pc = "idle"
    /\ LET r == splitDaisyTreeByTag(tree, mapTest(tagName))
       IN  /\ parts' = r.parts
           /\ totalParts' = r.totalParts
           /\ tree' = [tree EXCEPT !.children = r.children]
    /\ pc' = "splitDone"
    /\ UNCHANGED <<tagName, itemsPerPage, basePath, pages, totalPages, i>>
    /\ UNCHANGED updVars
    /\ UNCHANGED libVars

\* paginateDaisyTree up to its loop: the split, the early return on no parts,
\* totalItems and totalPages.
PaginateBegin ==
    /\ pc = "idle"
    /\ LET r == splitDaisyTreeByTag(tree, mapTest(tagName))
       IN  /\ parts' = r.parts
           /\ totalParts' = r.totalParts
           /\ tree' = [tree EXCEPT !.children = r.children]
           /\ IF Len(r.parts) = 0
              THEN /\ pc' = "done"
                   /\ UNCHANGED totalPages
              ELSE /\ pc' = "loop"
                   /\ totalPages' = CeilDiv(Len(r.parts), itemsPerPage)
    /\ pages' = <<>>
    /\ i' = 0
    /\ UNCHANGED <<tagName, itemsPerPage, basePath>>
    /\ UNCHANGED updVars
    /\ UNCHANGED libVars

\* One iteration of the for loop.  The model follows at most MaxPages
\* iterations of it.
PaginateLoop ==
    /\ pc = "loop"
    /\ Below(i, totalPages)
    /\ Len(pages) < MaxPages
    /\ pages' = Append(pages, makePage(parts, i, itemsPerPage, basePath, totalPages))
    /\ i' = i + 1
    /\ UNCHANGED <<pc, tree, tagName, itemsPerPage, basePath, parts, totalParts, totalPages>>
    /\ UNCHANGED updVars
    /\ UNCHANGED libVars

\* The loop condition fails: return pages.
PaginateReturn ==
    /\ pc = "loop"
    /\ ~Below(i, totalPages)
    /\ pc' = "done"
    /\ UNCHANGED <<splitVars, updVars>>
    /\ UNCHANGED libVars

NextSplit == CallSplit \/ PaginateBegin \/ PaginateLoop \/ PaginateReturn

SpecSplit == InitSplit /\ [][NextSplit]_vars

-----------------------------------------------------------------------------
(* The values and trees of the metadata updaters.                          *)

\* A value of a newValue / newMetadata entry: a string, a string array or
\* undefined.
Undefined == [kind |-> "undefined"]

Str(s) == [kind |-> "string", s |-> s]

Arr(a) == [kind |-> "array", a |-> a]

\* Array.prototype.join(',').
RECURSIVE Join(_)
Join(a) ==
    IF Len(a) = 0 THEN ""
    ELSE IF Len(a) = 1 THEN a[1]
    ELSE a[1] \o "," \o Join(Tail(a))

\* String(value).
StringOf(v) ==
    CASE v.kind = "string" -> v.s
      [] v.kind = "array"  -> Join(v.a)
      [] OTHER             -> "undefined"

\* String.prototype.startsWith.
StartsWith(s, prefix) == Len(s) >= Len(prefix) /\ SubSeq(s, 1, Len(prefix)) = prefix

\* newValue[key]: undefined for a key the object does not have.
Lookup(nv, key) ==
    IF \E j \in 1..Len(nv) : nv[j].key = key
    THEN nv[CHOOSE j \in 1..Len(nv) : nv[j].key = key].value
    ELSE Undefined

\* An item of a container: a <meta>, a <dc:*> element with its first text
\* node (or none), or a whitespace text node.
MetaElement(attrs) == [type |-> "element", name |-> "meta", attributes |-> attrs, text |-> None]

DcElement(n, t) ==
    [type |-> "element", name |-> n,
     attributes |-> ("xmlns:dc" :> "http://purl.org/dc/elements/1.1/"), text |-> t]

WhitespaceText == [type |-> "text", name |-> "", attributes |-> <<>>, text |-> None]

\* A container element (head, body, dc-metadata, x-metadata) and the document:
\* the root element's name and the containers below it, in document order.
Container(n, ch) == [type |-> "element", name |-> n, children |-> ch]

Document(rootName, containers) == [name |-> rootName, children |-> containers]

IsMeta(el) == el.type = "element" /\ el.name = "meta"

\* el.attributes?.name, as a set: empty when the attribute is absent.
NameOf(el) == IF "name" \in DOMAIN el.attributes THEN {el.attributes["name"]} ELSE {}

\* name && newValue[name] !== undefined
Matched(el, nv) ==
    /\ "name" \in DOMAIN el.attributes
    /\ el.attributes["name"] # ""
    /\ Lookup(nv, el.attributes["name"]) # Undefined

\* el.attributes = { ...el.attributes, content: c }
withContent(el, c) ==
    [el EXCEPT !.attributes =
        [x \in (DOMAIN el.attributes) \cup {"content"} |->
            IF x = "content" THEN c ELSE el.attributes[x]]]

\* The body of the forEach over meta elements, on one element.
updateMetaElement(el, nv) ==
    IF IsMeta(el) /\ Matched(el, nv)
    THEN withContent(el, StringOf(Lookup(nv, el.attributes["name"])))
    ELSE el

\* The element pushed for an entry that was not updated.
newMetaElement(e) == MetaElement([name |-> e.key, content |-> StringOf(e.value)])

newDcElement(e) == DcElement(e.key, Some(StringOf(e.value)))

\* parent.children.push(...els) on container c.
PushAll(d, c, els) == [d EXCEPT !.children[c].children = @ \o els]

\* The index of the first container named n, as a set: empty when none.
FirstContainer(d, n) ==
    LET cs == { c \in 1..Len(d.children) : d.children[c].name = n }
    IN  IF cs = {} THEN {} ELSE { CHOOSE c \in cs : \A x \in cs : c <= x }

\* The entries of nv whose key is not in keys, in order.
NotUpdated(nv, keys) == SelectSeq(nv, LAMBDA e : e.key \notin keys)

-----------------------------------------------------------------------------
(* updateDtbMetadataFromTree.                                              *)

\* The names marked updated by the forEach over selectAll('element[name=meta]').
metaUpdatedKeys(d, nv, containerNames) ==
    UNION { { d.children[c].children[o].attributes["name"] :
                o \in { x \in 1..Len(d.children[c].children) :
                          /\ IsMeta(d.children[c].children[x])
                          /\ Matched(d.children[c].children[x], nv) } } :
            c \in { x \in 1..Len(d.children) : d.children[x].name \in containerNames } }

\* The forEach over the meta elements of the containers named containerNames.
updateMetaElements(d, nv, containerNames) ==
    [d EXCEPT !.children =
        [c \in 1..Len(d.children) |->
            IF d.children[c].name \in containerNames
            THEN [d.children[c] EXCEPT !.children =
                    [o \in 1..Len(d.children[c].children) |->
                        updateMetaElement(d.children[c].children[o], nv)]]
            ELSE d.children[c]]]

ContainerNames(d) == { d.children[c].name : c \in 1..Len(d.children) }

\* The create step: one new <meta> per entry whose key was not updated,
\* pushed to head in entry order.
dtbCreate(d, h, nv, keys) ==
    LET missing == NotUpdated(nv, keys)
    IN  PushAll(d, h, [j \in 1..Len(missing) |-> newMetaElement(missing[j])])

updateDtbMetadataFromTree(d, nv, shouldCreate) ==
    LET head == FirstContainer(d, "head")
    IN  IF head = {}
        THEN [threw |-> TRUE, doc |-> d, updatedKeys |-> {}]
        ELSE LET h    == CHOOSE c \in head : TRUE
                 keys == metaUpdatedKeys(d, nv, ContainerNames(d))
                 d1   == updateMetaElements(d, nv, ContainerNames(d))
             IN  [threw |-> FALSE,
                  doc |-> IF shouldCreate THEN dtbCreate(d1, h, nv, keys) ELSE d1,
                  updatedKeys |-> keys]

-----------------------------------------------------------------------------
(* updateNcxMetadataFromTree and updateSmilMetadataFromTree: the same body. *)

\* The visitor, called by visit() on the <meta> element at offset o of
\* container c: the update of that element, then the create step, which
\* pushes to the element's parent.
ncxVisitor(d, keys, nv, shouldCreate, c, o) ==
    LET el      == d.children[c].children[o]
        hit     == Matched(el, nv)
        d1      == [d EXCEPT !.children[c].children[o] = updateMetaElement(el, nv)]
        keys1   == IF hit THEN keys \cup {el.attributes["name"]} ELSE keys
        missing == NotUpdated(nv, keys1)
    IN  [ doc |-> IF shouldCreate
                  THEN PushAll(d1, c, [j \in 1..Len(missing) |-> newMetaElement(missing[j])])
                  ELSE d1,
          updatedKeys |-> keys1 ]

\* The next node of the walk at or after offset o of container c; visit()
\* reads children.length anew at every step.  c = Len + 1 when the walk is over.
RECURSIVE NextNode(_, _, _)
NextNode(d, c, o) ==
    IF c > Len(d.children) THEN [c |-> c, o |-> 1]
    ELSE IF o > Len(d.children[c].children) THEN NextNode(d, c + 1, 1)
    ELSE [c |-> c, o |-> o]

-----------------------------------------------------------------------------
(* updateOpfMetadataFromTree.                                              *)

dcElementNames ==
    { "dc:Title", "dc:Creator", "dc:Identifier", "dc:Subject", "dc:Description",
      "dc:Publisher", "dc:Date", "dc:Language", "dc:Source" }

\* The places <<c, o>> of the children of every container named n from
\* container c on, in document order.
RECURSIVE ChildPlaces(_, _, _)
ChildPlaces(d, n, c) ==
    IF c > Len(d.children) THEN <<>>
    ELSE (IF d.children[c].name = n
          THEN [o \in 1..Len(d.children[c].children) |-> <<c, o>>]
          ELSE <<>>) \o ChildPlaces(d, n, c + 1)

\* The forEach over selectAll('element[name=dc-metadata] > *'): st is
\* <doc, updatedKeys, threw>.  select('text', element) of an element without
\* a text node is undefined, and the assignment to its value throws.
RECURSIVE opfDcLoop(_, _, _)
opfDcLoop(st, places, nv) ==
    IF Len(places) = 0 \/ st.threw THEN st
    ELSE LET c  == places[1][1]
             o  == places[1][2]
             el == st.doc.children[c].children[o]
             st1 == IF el.type # "element" \/ el.name \notin dcElementNames
                    THEN st
                    ELSE IF el.text = None
                    THEN [st EXCEPT !.threw = TRUE]
                    ELSE [ doc |-> [st.doc EXCEPT !.children[c].children[o].text =
                                       Some(StringOf(Lookup(nv, el.name)))],
                           updatedKeys |-> st.updatedKeys \cup {el.name},
                           threw |-> FALSE ]
         IN  opfDcLoop(st1, Tail(places), nv)

\* The create step over Object.entries(newMetadata): a dc:* key goes to
\* dc-metadata (dcMetadataParent?.children.push), any other to x-metadata
\* (xMetadataParent.children.push, which throws without x-metadata).
RECURSIVE opfCreate(_, _, _, _)
opfCreate(st, entries, dcParent, xParent) ==
    IF Len(entries) = 0 \/ st.threw THEN st
    ELSE LET e   == entries[1]
             st1 == IF e.key \in st.updatedKeys THEN st
                    ELSE IF StartsWith(e.key, "dc:")
                    THEN IF dcParent = {} THEN st
                         ELSE [st EXCEPT !.doc = PushAll(@, CHOOSE c \in dcParent : TRUE, <<newDcElement(e)>>)]
                    ELSE IF xParent = {} THEN [st EXCEPT !.threw = TRUE]
                         ELSE [st EXCEPT !.doc = PushAll(@, CHOOSE c \in xParent : TRUE, <<newMetaElement(e)>>)]
         IN  opfCreate(st1, Tail(entries), dcParent, xParent)

updateOpfMetadataFromTree(d, nv, shouldCreate) ==
    IF d.name # "package"
    THEN [doc |-> d, updatedKeys |-> {}, threw |-> TRUE]
    ELSE LET dcParent == FirstContainer(d, "dc-metadata")
             xParent  == FirstContainer(d, "x-metadata")
             st1 == opfDcLoop([doc |-> d, updatedKeys |-> {}, threw |-> FALSE],
                              ChildPlaces(d, "dc-metadata", 1), nv)
             st2 == IF st1.threw THEN st1
                    ELSE [ doc |-> updateMetaElements(st1.doc, nv, {"x-metadata"}),
                           updatedKeys |-> st1.updatedKeys \cup metaUpdatedKeys(st1.doc, nv, {"x-metadata"}),
                           threw |-> FALSE ]
         IN  IF shouldCreate THEN opfCreate(st2, nv, dcParent, xParent) ELSE st2

-----------------------------------------------------------------------------
(* The arguments of an updater call.                                       *)

HeadKeys == {"dtb:uid", "dc:Title", ""}

OpfKeys == {"dc:Title", "dc:Format", "dtb:uid"}

KeysOf(f) == IF f = "opf" THEN OpfKeys ELSE HeadKeys

\* updateDtbMetadataFromTree takes Record<string, string | string[]>, the
\* others a Partial<...Metadata>, whose values may be undefined.
ValuesOf(f) == IF f = "dtb" THEN {Str("new"), Arr(<<"x", "y">>)} ELSE {Str("new"), Undefined}

\* The objects with at most MaxKeys keys, as entry sequences with distinct keys.
NewValuesOf(f) ==
    UNION { { nv \in [1..n -> [key : KeysOf(f), value : ValuesOf(f)]] :
                \A a, b \in 1..n : a # b => nv[a].key # nv[b].key } : n \in 0..MaxKeys }

HeadMetas ==
    { MetaElement([name |-> "dtb:uid", content |-> "old"]),
      MetaElement([name |-> "dc:Title", content |-> "old", scheme |-> "s"]),
      MetaElement([name |-> "", content |-> "old"]),
      MetaElement([content |-> "old"]) }

HeadLists == UNION { [1..n -> HeadMetas] : n \in 0..MaxMeta }

Body == Container("body", <<MetaElement([name |-> "dtb:uid", content |-> "old"])>>)

\* A head, a body with a <meta> before a head, or no head at all.
HeadDocs ==
    { Document("root", <<Container("head", ch)>>) : ch \in HeadLists }
    \cup { Document("root", <<Body, Container("head", ch)>>) : ch \in HeadLists }
    \cup { Document("root", <<Body>>), Document("root", <<>>) }

DcItems ==
    { DcElement("dc:Title", Some("old")), DcElement("dc:Title", None),
      DcElement("dc:Format", Some("old")), WhitespaceText }

DcLists == UNION { [1..n -> DcItems] : n \in 0..MaxMeta }

XLists ==
    { <<>>, <<MetaElement([name |-> "dtb:uid", content |-> "old", scheme |-> "s"])>>,
      <<MetaElement([name |-> "dc:Title", content |-> "old"])>> }

OpfDocs ==
    { Document("package", <<Container("dc-metadata", dc), Container("x-metadata", x)>>) :
        dc \in DcLists, x \in XLists }
    \cup { Document("package", <<Container("dc-metadata", dc)>>) : dc \in DcLists }
    \cup { Document("package", <<Container("x-metadata", x)>>) : x \in XLists }
    \cup { Document("root", <<Container("dc-metadata", <<>>), Container("x-metadata", <<>>)>>) }

DocsOf(f) == IF f = "opf" THEN OpfDocs ELSE HeadDocs

-----------------------------------------------------------------------------
(* The updater calls.                                                      *)

InitUpd ==
    /\ pc = "idle"
    /\ fmt \in {"dtb", "ncx", "smil", "opf"}
    /\ doc \in DocsOf(fmt)
    /\ newValues \in NewValuesOf(fmt)
    /\ createIfMissing \in BOOLEAN
    /\ updatedKeys = {}
    /\ pos = [c |-> 1, o |-> 1]
    /\ callNo = 1
    /\ docBefore = doc
    /\ docFirst = None
    /\ tree = ElementNode("container", <<>>)
    /\ tagName = {}
    /\ itemsPerPage = 1
    /\ basePath = "/"
    /\ parts = <<>>
    /\ totalParts = 0
    /\ pages = <<>>
    /\ totalPages = Finite(0)
    /\ i = 0
    /\ fn = "none"
    /\ arg = <<>>
    /\ ret = <<>>

\* A call of updateDtbMetadataFromTree, from entry to return or throw.
UpdateDtb ==
    /\ pc = "idle"
    /\ fmt = "dtb"
    /\ LET r == updateDtbMetadataFromTree(doc, newValues, createIfMissing)
       IN  /\ doc' = r.doc
           /\ updatedKeys' = r.updatedKeys
           /\ pc' = IF r.threw THEN "threw" ELSE "done"
    /\ UNCHANGED <<fmt, newValues, createIfMissing, pos, callNo, docBefore, docFirst, splitVars>>
    /\ UNCHANGED libVars

\* A call of updateOpfMetadataFromTree, from entry to return or throw.
UpdateOpf ==
    /\ pc = "idle"
    /\ fmt = "opf"
    /\ LET r == updateOpfMetadataFromTree(doc, newValues, createIfMissing)
       IN  /\ doc' = r.doc
           /\ updatedKeys' = r.updatedKeys
           /\ pc' = IF r.threw THEN "threw" ELSE "done"
    /\ UNCHANGED <<fmt, newValues, createIfMissing, pos, callNo, docBefore, docFirst, splitVars>>
    /\ UNCHANGED libVars

\* updateNcxMetadataFromTree / updateSmilMetadataFromTree up to the call of
\* visit(): visit starts at the first node of the tree.
UpdateNcxBegin ==
    /\ pc = "idle"
    /\ fmt \in {"ncx", "smil"}
    /\ pc' = "visit"
    /\ updatedKeys' = {}
    /\ pos' = NextNode(doc, 1, 1)
    /\ UNCHANGED <<fmt, doc, newValues, createIfMissing, callNo, docBefore, docFirst, splitVars>>
    /\ UNCHANGED libVars

\* visit() reaches the node at pos: the visitor runs if it is a <meta>
\* element, and the walk moves on.  A call that returns visits each of the
\* n children its container had at the start and each child pushed before
\* every key was updated, and a visit pushes at most MaxKeys children, so
\* the container of a returning call never exceeds n + (n + MaxKeys) *
\* MaxKeys children.  The model follows the walk MaxGrowth children past
\* that size, which only a walk that never returns can reach.
UpdateNcxVisit ==
    /\ pc = "visit"
    /\ pos.c <= Len(doc.children)
    /\ LET el == doc.children[pos.c].children[pos.o]
           r  == IF IsMeta(el)
                 THEN ncxVisitor(doc, updatedKeys, newValues, createIfMissing, pos.c, pos.o)
                 ELSE [doc |-> doc, updatedKeys |-> updatedKeys]
           n  == Len(docBefore.children[pos.c].children)
       IN  /\ Len(r.doc.children[pos.c].children) <= n + (n + MaxKeys) * MaxKeys + MaxGrowth
           /\ doc' = r.doc
           /\ updatedKeys' = r.updatedKeys
           /\ pos' = NextNode(r.doc, pos.c, pos.o + 1)
    /\ UNCHANGED <<pc, fmt, newValues, createIfMissing, callNo, docBefore, docFirst, splitVars>>
    /\ UNCHANGED libVars

\* visit() has walked the whole tree: the updater returns.
UpdateNcxReturn ==
    /\ pc = "visit"
    /\ pos.c > Len(doc.children)
    /\ pc' = "done"
    /\ UNCHANGED <<updVars, splitVars>>
    /\ UNCHANGED libVars

\* The caller calls the same updater again on the same tree with the same
\* arguments.
CallAgain ==
    /\ pc = "done"
    /\ callNo = 1
    /\ callNo' = 2
    /\ docFirst' = Some(doc)
    /\ docBefore' = doc
    /\ updatedKeys' = {}
    /\ pos' = [c |-> 1, o |-> 1]
    /\ pc' = "idle"
    /\ UNCHANGED <<fmt, doc, newValues, createIfMissing, splitVars>>
    /\ UNCHANGED libVars

NextUpd == UpdateDtb \/ UpdateOpf \/ UpdateNcxBegin \/ UpdateNcxVisit \/ UpdateNcxReturn \/ CallAgain

SpecUpd == InitUpd /\ [][NextUpd]_vars

-----------------------------------------------------------------------------
(* parseTime, calculateDuration and formatTime of lib/utils.ts.            *)

DigitChars == "0123456789"

CharAt(s, k) == SubSeq(s, k, k)

\* \d
IsDigit(ch) == \E k \in 1..10 : CharAt(DigitChars, k) = ch

DigitValue(ch) == (CHOOSE k \in 1..10 : CharAt(DigitChars, k) = ch) - 1

\* The length of the longest prefix of s matched by \d*.
RECURSIVE DigitPrefixLen(_)
DigitPrefixLen(s) ==
    IF Len(s) > 0 /\ IsDigit(CharAt(s, 1))
    THEN 1 + DigitPrefixLen(SubSeq(s, 2, Len(s)))
    ELSE 0

\* parseInt(s, 10) of a string of digits.
RECURSIVE parseInt(_)
parseInt(s) ==
    IF Len(s) = 0 THEN 0
    ELSE parseInt(SubSeq(s, 1, Len(s) - 1)) * 10 + DigitValue(CharAt(s, Len(s)))

\* The pattern without its end anchor: text after the seconds is ignored.
timePatternUnanchored(s) ==
    LET n    == DigitPrefixLen(s)
        rest == SubSeq(s, n + 1, Len(s))
        hms  == /\ Len(rest) >= 6
                /\ CharAt(rest, 1) = ":" /\ IsDigit(CharAt(rest, 2)) /\ IsDigit(CharAt(rest, 3))
                /\ CharAt(rest, 4) = ":" /\ IsDigit(CharAt(rest, 5)) /\ IsDigit(CharAt(rest, 6))
        frac == /\ Len(rest) >= 10
                /\ CharAt(rest, 7) = "."
                /\ \A k \in 8..10 : IsDigit(CharAt(rest, k))
    IN  IF n >= 1 /\ hms
        THEN Some([ h  |-> SubSeq(s, 1, n),
                    m  |-> SubSeq(rest, 2, 3),
                    s  |-> SubSeq(rest, 5, 6),
                    ms |-> IF frac THEN Some(SubSeq(rest, 8, 10)) ELSE None ])
        ELSE None

\* timeStr.match(/^(\d+):(\d{2}):(\d{2})(?:\.(\d{3}))?$/): the groups of a
\* match, or None.  \d+ takes every leading digit, since ':' must follow it.
timePattern(s) ==
    LET n    == DigitPrefixLen(s)
        rest == SubSeq(s, n + 1, Len(s))
        hms  == /\ Len(rest) >= 6
                /\ CharAt(rest, 1) = ":" /\ IsDigit(CharAt(rest, 2)) /\ IsDigit(CharAt(rest, 3))
                /\ CharAt(rest, 4) = ":" /\ IsDigit(CharAt(rest, 5)) /\ IsDigit(CharAt(rest, 6))
        frac == /\ Len(rest) = 10
                /\ CharAt(rest, 7) = "."
                /\ \A k \in 8..10 : IsDigit(CharAt(rest, k))
    IN  IF n >= 1 /\ hms /\ (Len(rest) = 6 \/ frac)
        THEN Some([ h  |-> SubSeq(s, 1, n),
                    m  |-> SubSeq(rest, 2, 3),
                    s  |-> SubSeq(rest, 5, 6),
                    ms |-> IF frac THEN Some(SubSeq(rest, 8, 10)) ELSE None ])
        ELSE None

parseTime(timeStr) ==
    IF timeStr = "" THEN 0
    ELSE LET match == timePattern(timeStr)
         IN  IF match = None THEN 0
             ELSE LET hours        == parseInt(match[1].h)
                      minutes      == parseInt(match[1].m)
                      seconds      == parseInt(match[1].s)
                      milliseconds == IF match[1].ms # None THEN parseInt(match[1].ms[1]) ELSE 0
                  IN  IF minutes >= 60 \/ seconds >= 60 \/ milliseconds >= 1000
                      THEN 0
                      ELSE (hours * 3600 + minutes * 60 + seconds) * 1000 + milliseconds

\* The difference without Math.max.
calculateDurationSigned(startTime, endTime) == parseTime(endTime) - parseTime(startTime)

calculateDuration(startTime, endTime) ==
    LET start == parseTime(startTime)
        end   == parseTime(endTime)
    IN  IF end - start > 0 THEN end - start ELSE 0

\* date-fns addLeadingZeros(number, targetLength), number >= 0.
RECURSIVE addLeadingZeros(_, _)
addLeadingZeros(n, targetLength) ==
    IF Len(ToString(n)) >= targetLength THEN ToString(n)
    ELSE "0" \o addLeadingZeros(n, targetLength - 1)

MonthLengths == <<31, 28, 31, 30, 31, 30, 31, 31, 30, 31, 30, 31>>

\* The month and day of the 0-based day doy of a year of 365 days.
RECURSIVE MonthDay(_, _)
MonthDay(doy, month) ==
    IF doy < MonthLengths[month] THEN [month |-> month, day |-> doy + 1]
    ELSE MonthDay(doy - MonthLengths[month], month + 1)

\* The local fields of new Date(ms) where getTimezoneOffset() is offset
\* (minutes behind UTC), for an instant of the years 1969 to 1971.
LocalFields(ms, offset) ==
    LET secs == (ms - offset * 60000) \div 1000
        days == secs \div 86400
        sod  == secs % 86400
        md   == MonthDay(days % 365, 1)
    IN  [ year   |-> 1970 + (days \div 365),
          month  |-> md.month,
          day    |-> md.day,
          hour   |-> sod \div 3600,
          minute |-> (sod % 3600) \div 60,
          second |-> sod % 60 ]

\* The time zone designator of formatISO.
tzOffsetOf(offset) ==
    IF offset # 0
    THEN LET absoluteOffset == IF offset < 0 THEN 0 - offset ELSE offset
         IN  (IF offset < 0 THEN "+" ELSE "-")
             \o addLeadingZeros(absoluteOffset \div 60, 2) \o ":" \o addLeadingZeros(absoluteOffset % 60, 2)
    ELSE "Z"

\* The hour is written without its leading zero.
formatTimeUnpadded(milliseconds, offset) ==
    LET d == LocalFields(milliseconds, offset)
    IN  addLeadingZeros(d.year, 4) \o "-" \o addLeadingZeros(d.month, 2) \o "-" \o addLeadingZeros(d.day, 2)
        \o "T"
        \o ToString(d.hour) \o ":" \o addLeadingZeros(d.minute, 2) \o ":" \o addLeadingZeros(d.second, 2)
        \o tzOffsetOf(offset)

\* formatISO(new Date(milliseconds)): extended format, complete representation.
formatTime(milliseconds, offset) ==
    LET d == LocalFields(milliseconds, offset)
    IN  addLeadingZeros(d.year, 4) \o "-" \o addLeadingZeros(d.month, 2) \o "-" \o addLeadingZeros(d.day, 2)
        \o "T"
        \o addLeadingZeros(d.hour, 2) \o ":" \o addLeadingZeros(d.minute, 2) \o ":" \o addLeadingZeros(d.second, 2)
        \o tzOffsetOf(offset)

-----------------------------------------------------------------------------
(* The time strings of a call.  A string is kept as the pieces it is       *)
(* written from: each piece is its text, whether the text has the form the *)
(* piece stands for, and the number it denotes.                            *)

Piece(t, v) == [text |-> t, ok |-> TRUE, value |-> v]

Bad(t) == [text |-> t, ok |-> FALSE, value |-> 0]

HourPieces ==
    { Piece(ToString(n), n) : n \in 0..MaxHours } \cup { Piece("0" \o ToString(n), n) : n \in 0..9 }

BadHourPieces == { Bad(""), Bad("x"), Bad("-1") }

TwoDigitPieces ==
    { Piece("00", 0), Piece("05", 5), Piece("59", 59), Piece("60", 60), Piece("61", 61), Piece("99", 99) }

BadTwoDigitPieces == { Bad("5"), Bad("123"), Bad("0x") }

FracPieces == { Piece("", 0), Piece(".000", 0), Piece(".083", 83), Piece(".999", 999) }

BadFracPieces == { Bad(".5"), Bad(".1234"), Bad("083"), Bad(".08x"), Bad(".") }

TimeInput(kind, pre, h, sep, m, s, f, post) ==
    [kind |-> kind, pre |-> pre, h |-> h, sep |-> sep, m |-> m, s |-> s, f |-> f, post |-> post]

\* The strings of the shape H:mm:ss and H:mm:ss.SSS, in or out of range.
ShapedTimes ==
    { TimeInput("clock", "", h, ":", m, s, f, "") :
        h \in HourPieces, m \in TwoDigitPieces, s \in TwoDigitPieces, f \in FracPieces }

\* Strings with text before or after that shape, another separator, or a
\* piece of another form.
DefectiveTimes ==
    { TimeInput("clock", pre, h, sep, m, s, f, post) :
        pre  \in {"", " "},
        h    \in {Piece("0", 0), Piece("12", 12)} \cup BadHourPieces,
        sep  \in {":", ";", ""},
        m    \in {Piece("00", 0), Piece("59", 59), Piece("60", 60)} \cup BadTwoDigitPieces,
        s    \in {Piece("00", 0), Piece("59", 59), Piece("60", 60), Bad("5")},
        f    \in {Piece("", 0), Piece(".083", 83)} \cup BadFracPieces,
        post \in {"", "s", " ", "\n"} }

\* Strings of no such shape.
RawTimes ==
    { TimeInput("raw", "", Bad(t), "", Bad(""), Bad(""), Bad(""), "") :
        t \in {"", "invalid", "not:a:time", "0:00", "::", "0:00:0", "0:0:00"} }

\* The seconds form S.mmms.
SecondsTimes ==
    { TimeInput("seconds", "", Piece(ToString(n), n), "", Bad(""), Bad(""), f, "s") :
        n \in {0, 1, 245}, f \in {Piece(".178", 178), Piece(".793", 793), Piece(".000", 0)} }

TimeInputs == ShapedTimes \cup DefectiveTimes \cup RawTimes \cup SecondsTimes

\* The clipBegin / clipEnd strings a duration is taken between.
ClipTimes ==
    { TimeInput("clock", "", h, ":", m, s, f, post) :
        h    \in {Piece("0", 0), Piece("1", 1)},
        m    \in {Piece("00", 0), Piece("59", 59), Piece("60", 60)},
        s    \in {Piece("00", 0), Piece("30", 30)},
        f    \in {Piece("", 0), Piece(".500", 500), Bad(".5")},
        post \in {"", "s"} }
    \cup { TimeInput("raw", "", Bad(t), "", Bad(""), Bad(""), Bad(""), "") : t \in {"", "invalid"} }

\* The string of a time input.
TimeStr(p) == p.pre \o p.h.text \o p.sep \o p.m.text \o p.sep \o p.s.text \o p.f.text \o p.post

\* date.getTimezoneOffset() of the zones a call may run in: UTC, UTC+1,
\* UTC-5 and UTC+5:30.
TimezoneOffsets == {0, 0 - 60, 300, 0 - 330}

-----------------------------------------------------------------------------
(* extractMetadata of lib/utils.ts.                                        *)

\* getAttribute(element, attributeName): the value, or None for undefined.
getAttribute(el, attributeName) ==
    IF attributeName \in DOMAIN el.attributes THEN Some(el.attributes[attributeName]) ELSE None

\* The truthiness of an optional string: undefined and '' are falsy.
TruthyString(v) == v # None /\ v[1] # ""

\* The members a plain object inherits from Object.prototype, and what a
\* read of one yields.
ObjectPrototypeNames == {"constructor", "toString", "valueOf", "hasOwnProperty"}

InheritedMember == [kind |-> "function"]

\* A metadata object: its own entries <<key, value>> in the order of
\* Object.keys.  A value is Str(s) or Arr(items), the items being values.
OwnIndex(metadata, key) == { j \in 1..Len(metadata) : metadata[j].key = key }

\* metadata[key]: the own value, else the inherited member, else undefined.
GetProp(metadata, key) ==
    IF OwnIndex(metadata, key) # {}
    THEN metadata[CHOOSE j \in OwnIndex(metadata, key) : TRUE].value
    ELSE IF key \in ObjectPrototypeNames THEN InheritedMember
    ELSE Undefined

\* A key that is a canonical array index ("0", "7", "42"): such keys come
\* first in the order of an object's keys, in ascending numeric order.
IsArrayIndex(key) ==
    /\ Len(key) > 0
    /\ DigitPrefixLen(key) = Len(key)
    /\ (Len(key) > 1 => CharAt(key, 1) # "0")

KeyBefore(a, b) ==
    /\ IsArrayIndex(a)
    /\ (IsArrayIndex(b) => parseInt(a) < parseInt(b))

\* metadata[key] = value: an own entry keeps its place, a new key is placed
\* after the array indices below it, or at the end.
SetProp(metadata, key, value) ==
    IF OwnIndex(metadata, key) # {}
    THEN [metadata EXCEPT ![CHOOSE j \in OwnIndex(metadata, key) : TRUE].value = value]
    ELSE LET before == SelectSeq(metadata, LAMBDA e : ~KeyBefore(key, e.key))
             after  == SelectSeq(metadata, LAMBDA e : KeyBefore(key, e.key))
         IN  before \o <<[key |-> key, value |-> value]>> \o after

\* The body of the forEach over metaElements, on one element.  A stored
\* string is never empty, so metadata[name] is truthy unless it is undefined.
extractOne(metadata, meta) ==
    LET name    == getAttribute(meta, "name")
        content == getAttribute(meta, "content")
    IN  IF TruthyString(name) /\ TruthyString(content)
        THEN LET existing == GetProp(metadata, name[1])
             IN  IF existing # Undefined
                 THEN IF existing.kind = "array"
                      THEN SetProp(metadata, name[1], Arr(Append(existing.a, Str(content[1]))))
                      ELSE SetProp(metadata, name[1], Arr(<<existing, Str(content[1])>>))
                 ELSE SetProp(metadata, name[1], Str(content[1]))
        ELSE metadata

RECURSIVE extractLoop(_, _)
extractLoop(metadata, metaElements) ==
    IF Len(metaElements) = 0 THEN metadata
    ELSE extractLoop(extractOne(metadata, metaElements[1]), Tail(metaElements))

extractMetadata(metaElements) == extractLoop(<<>>, metaElements)

\* The <meta> elements handed to extractMetadata: with and without a name,
\* with and without a content, either of them possibly the empty string.
MetaNames == {"dc:Title", "dtb:uid", "7", "constructor", ""}

MetaContents == {"x", "y", ""}

MetaInputs ==
    { MetaElement([name |-> n, content |-> c]) : n \in MetaNames, c \in MetaContents }
    \cup { MetaElement([name |-> n]) : n \in {"dc:Title"} }
    \cup { MetaElement([content |-> c]) : c \in {"x"} }
    \cup { MetaElement(<<>>) }

MetaInputLists == UNION { [1..n -> MetaInputs] : n \in 0..MaxElements }

-----------------------------------------------------------------------------
(* The xast trees of the parsers, and the tree queries: visit() of         *)
(* unist-util-visit and select() / selectAll() of unist-util-select.       *)

XRoot(ch) == [type |-> "root", name |-> "", attributes |-> <<>>, children |-> ch, value |-> ""]

XElement(n, attrs, ch) == [type |-> "element", name |-> n, attributes |-> attrs, children |-> ch, value |-> ""]

XText(v) == [type |-> "text", name |-> "", attributes |-> <<>>, children |-> <<>>, value |-> v]

\* The nodes of a tree in depth-first pre-order, the tree's own node first,
\* each with its ancestors inside the tree, outermost first.
RECURSIVE Walk(_, _)
RECURSIVE WalkAll(_, _)
Walk(node, ancestors) ==
    <<[node |-> node, ancestors |-> ancestors]>> \o WalkAll(node.children, Append(ancestors, node))

WalkAll(nodes, ancestors) ==
    IF Len(nodes) = 0 THEN <<>>
    ELSE Walk(nodes[1], ancestors) \o WalkAll(Tail(nodes), ancestors)

\* A compound selector: element[name=n], a node type such as text, or *.
SelElement(n) == [type |-> "element", name |-> n]

SelType(t) == [type |-> t, name |-> "*"]

SelAny == [type |-> "*", name |-> "*"]

MatchesCompound(c, node) ==
    /\ c.type \in {"*", node.type}
    /\ c.name \in {"*", node.name}

\* A selector is its compound selectors joined by '>', outermost first: the
\* last one is tested on the node, the others on its nearest ancestors.
MatchesSelector(selector, e) ==
    LET k == Len(selector)
        a == Len(e.ancestors)
    IN  /\ MatchesCompound(selector[k], e.node)
        /\ a >= k - 1
        /\ \A j \in 1..(k - 1) : MatchesCompound(selector[j], e.ancestors[a - (k - 1) + j])

\* selectAll(selector, tree): the matching nodes of the tree, in document order.
selectAll(selector, t) ==
    LET hits == SelectSeq(Walk(t, <<>>), LAMBDA e : MatchesSelector(selector, e))
    IN  [j \in 1..Len(hits) |-> hits[j].node]

\* select(selector, tree): the first matching node, or None.
select(selector, t) ==
    LET all == selectAll(selector, t)
    IN  IF Len(all) = 0 THEN None ELSE Some(all[1])

\* visit(tree, 'element', visitor) with the visitor of findElement: the
\* nodes are visited in depth-first pre-order, the tree's own node first, and
\* the visitor's `return false` on a match ends the traversal.
RECURSIVE visitFirst(_, _)
RECURSIVE visitFirstAmong(_, _)
visitFirst(node, tag) ==
    IF node.type = "element" /\ node.name = tag THEN Some(node)
    ELSE visitFirstAmong(node.children, tag)

visitFirstAmong(nodes, tag) ==
    IF Len(nodes) = 0 THEN None
    ELSE LET result == visitFirst(nodes[1], tag)
         IN  IF result # None THEN result ELSE visitFirstAmong(Tail(nodes), tag)

\* findElement(tree, tagName): the result, or None for undefined.
findElement(t, tag) == visitFirst(t, tag)

\* visit(tree, 'element', visitor) with the visitor of findElements:
\* results.push(node) on every match, in the order of the visits.
RECURSIVE visitCollect(_, _, _)
RECURSIVE visitCollectAmong(_, _, _)
visitCollect(node, tag, results) ==
    visitCollectAmong(node.children, tag,
                      IF node.type = "element" /\ node.name = tag THEN Append(results, node) ELSE results)

visitCollectAmong(nodes, tag, results) ==
    IF Len(nodes) = 0 THEN results
    ELSE visitCollectAmong(Tail(nodes), tag, visitCollect(nodes[1], tag, results))

\* The matches are listed last first.
findElementsLastFirst(t, tag) ==
    LET results == visitCollect(t, tag, <<>>)
    IN  [j \in 1..Len(results) |-> results[Len(results) + 1 - j]]

\* findElements(tree, tagName).
findElements(t, tag) == visitCollect(t, tag, <<>>)

\* findDirectChildren(tree, tagName).
findDirectChildren(t, tag) ==
    SelectSeq(t.children, LAMBDA child : child.type = "element" /\ child.name = tag)

Whitespace == {" ", "\n", "\t"}

\* String.prototype.trim.
RECURSIVE Trim(_)
Trim(s) ==
    IF Len(s) = 0 THEN s
    ELSE IF CharAt(s, 1) \in Whitespace THEN Trim(SubSeq(s, 2, Len(s)))
    ELSE IF CharAt(s, Len(s)) \in Whitespace THEN Trim(SubSeq(s, 1, Len(s) - 1))
    ELSE s

RECURSIVE Concat(_)
Concat(strs) == IF Len(strs) = 0 THEN "" ELSE strs[1] \o Concat(Tail(strs))

\* getTextContent(element): the values of the text nodes, joined and trimmed.
getTextContent(element) ==
    LET texts == selectAll(<<SelType("text")>>, element)
    IN  Trim(Concat([j \in 1..Len(texts) |-> texts[j].value]))

-----------------------------------------------------------------------------
(* parseNcx: the parser of lib/ncx.ts written with select(), and the one   *)
(* written with findElement().                                             *)

\* value || '' of an attribute.
AttrOrEmpty(el, a) == IF TruthyString(getAttribute(el, a)) THEN el.attributes[a] ELSE ""

\* The NavPoint pushed for one navPoint element.
navPointOf(navPoint, level) ==
    LET label   == select(<<SelElement("navLabel"), SelElement("text"), SelType("text")>>, navPoint)
        content == select(<<SelElement("content")>>, navPoint)
    IN  [ id        |-> AttrOrEmpty(navPoint, "id"),
          level     |-> level,
          label     |-> IF label = None THEN None ELSE Some(label[1].value),
          src       |-> IF content = None THEN "" ELSE AttrOrEmpty(content[1], "src"),
          playOrder |-> IF TruthyString(getAttribute(navPoint, "playOrder"))
                        THEN parseInt(navPoint.attributes["playOrder"]) ELSE 0 ]

\* parseNavPoints(navPointElements, level): the nested navPoints are those
\* selectAll('* > element[name=navPoint]', navPoint) returns.
RECURSIVE parseNavPoints(_, _)
parseNavPoints(navPointElements, level) ==
    IF Len(navPointElements) = 0 THEN <<>>
    ELSE LET navPoint        == navPointElements[1]
             nestedNavPoints == selectAll(<<SelAny, SelElement("navPoint")>>, navPoint)
         IN  <<navPointOf(navPoint, level)>>
             \o (IF Len(nestedNavPoints) > 0 THEN parseNavPoints(nestedNavPoints, level + 1) ELSE <<>>)
             \o parseNavPoints(Tail(navPointElements), level)

parseNcx(t) ==
    IF select(<<SelElement("ncx")>>, t) = None
    THEN [threw |-> TRUE]
    ELSE LET docTitle == select(<<SelElement("docTitle"), SelElement("text"), SelType("text")>>, t)
         IN  [ threw     |-> FALSE,
               metadata  |-> extractMetadata(selectAll(<<SelElement("meta")>>, t)),
               navPoints |-> parseNavPoints(
                                 selectAll(<<SelElement("navMap"), SelElement("navPoint")>>, t), 1),
               docTitle  |-> IF docTitle = None THEN None ELSE Some(docTitle[1].value) ]

\* The NavPoint pushed by the parser written with findElement().
navPointOfFind(navPoint, level) ==
    LET navLabelElement  == findElement(navPoint, "navLabel")
        labelTextElement == IF navLabelElement # None THEN findElement(navLabelElement[1], "text") ELSE None
        contentElement   == findElement(navPoint, "content")
    IN  [ id        |-> AttrOrEmpty(navPoint, "id"),
          level     |-> level,
          label     |-> Some(IF labelTextElement # None THEN getTextContent(labelTextElement[1]) ELSE ""),
          src       |-> IF contentElement # None THEN AttrOrEmpty(contentElement[1], "src") ELSE "",
          playOrder |-> IF TruthyString(getAttribute(navPoint, "playOrder"))
                        THEN parseInt(navPoint.attributes["playOrder"]) ELSE 0 ]

\* parseNavPoints of that parser: the nested navPoints are
\* findDirectChildren(navPoint, 'navPoint').
RECURSIVE parseNavPointsFind(_, _)
parseNavPointsFind(navPointElements, level) ==
    IF Len(navPointElements) = 0 THEN <<>>
    ELSE LET navPoint        == navPointElements[1]
             nestedNavPoints == findDirectChildren(navPoint, "navPoint")
         IN  <<navPointOfFind(navPoint, level)>>
             \o (IF Len(nestedNavPoints) > 0 THEN parseNavPointsFind(nestedNavPoints, level + 1) ELSE <<>>)
             \o parseNavPointsFind(Tail(navPointElements), level)

parseNcxFind(t) ==
    LET ncxElement == findElement(t, "ncx")
    IN  IF ncxElement = None
        THEN [threw |-> TRUE]
        ELSE LET headElement     == findElement(ncxElement[1], "head")
                 metaElements    == IF headElement # None THEN findElements(headElement[1], "meta") ELSE <<>>
                 docTitleElement == findElement(ncxElement[1], "docTitle")
                 navMapElement   == findElement(ncxElement[1], "navMap")
             IN  [ threw     |-> FALSE,
                   metadata  |-> extractMetadata(metaElements),
                   navPoints |-> parseNavPointsFind(
                                     IF navMapElement # None
                                     THEN findDirectChildren(navMapElement[1], "navPoint") ELSE <<>>, 1),
                   docTitle  |-> IF docTitleElement = None THEN None
                                 ELSE LET textElement == findElement(docTitleElement[1], "text")
                                      IN  Some(getTextContent(IF textElement # None THEN textElement[1]
                                                              ELSE docTitleElement[1])) ]

\* The navPoint elements of an NCX document.  A navPoint has an id and a
\* playOrder, both its number in document order, and either a navLabel and
\* a content of its own or neither.
NavLabel(t) == XElement("navLabel", <<>>, <<XElement("text", <<>>, <<XText(t)>>)>>)

Content(src) == XElement("content", [src |-> src], <<>>)

NavPointElement(n, own, nested) ==
    XElement("navPoint", [id |-> "np" \o ToString(n), playOrder |-> ToString(n)],
             (IF own THEN <<NavLabel("Label " \o ToString(n)), Content("c.smil#" \o ToString(n))>> ELSE <<>>)
             \o nested)

\* The forests of n navPoint elements numbered from first in document order.
RECURSIVE NavForests(_, _)
NavForests(n, first) ==
    IF n = 0 THEN {<<>>}
    ELSE UNION { { <<NavPointElement(first, own, nested)>> \o rest :
                     own \in BOOLEAN,
                     nested \in NavForests(k - 1, first + 1),
                     rest \in NavForests(n - k, first + k) } : k \in 1..n }

NcxHead == XElement("head", <<>>, <<XElement("meta", [name |-> "dtb:uid", content |-> "12345"], <<>>)>>)

DocTitle == XElement("docTitle", <<>>, <<XElement("text", <<>>, <<XText("Sample Book")>>)>>)

\* An ncx with a navMap of at most MaxNavPoints navPoints, an ncx without a
\* navMap, and a document without an ncx element.
NcxDocs ==
    UNION { { XRoot(<<XElement("ncx", <<>>, <<NcxHead, DocTitle, XElement("navMap", <<>>, f)>>)>>) :
                f \in NavForests(n, 1) } : n \in 0..MaxNavPoints }
    \cup { XRoot(<<XElement("ncx", <<>>, <<NcxHead>>)>>), XRoot(<<XElement("root", <<>>, <<>>)>>),
           XRoot(<<XElement("root", <<>>, <<XElement("ncx", <<>>, <<>>)>>)>>) }

-----------------------------------------------------------------------------
(* parseSmil of lib/smil.ts.                                               *)

\* The audio element with no src is taken as a clip all the same.
extractAudioClipNoSrcTest(element) ==
    LET audioElement == select(<<SelElement("audio")>>, element)
    IN  IF audioElement = None THEN None
        ELSE LET src       == getAttribute(audioElement[1], "src")
                 clipBegin == getAttribute(audioElement[1], "clipBegin")
                 clipEnd   == getAttribute(audioElement[1], "clipEnd")
             IN  IF ~TruthyString(clipBegin) \/ ~TruthyString(clipEnd)
                 THEN None
                 ELSE Some([ src       |-> IF src = None THEN "" ELSE src[1],
                             clipBegin |-> clipBegin[1],
                             clipEnd   |-> clipEnd[1],
                             duration  |-> calculateDuration(clipBegin[1], clipEnd[1]) ])

\* extractAudioClip(element): the clip of the first audio element within
\* element, or None for null.
extractAudioClip(element) ==
    LET audioElement == select(<<SelElement("audio")>>, element)
    IN  IF audioElement = None THEN None
        ELSE LET src       == getAttribute(audioElement[1], "src")
                 clipBegin == getAttribute(audioElement[1], "clipBegin")
                 clipEnd   == getAttribute(audioElement[1], "clipEnd")
             IN  IF ~TruthyString(src) \/ ~TruthyString(clipBegin) \/ ~TruthyString(clipEnd)
                 THEN None
                 ELSE Some([ src       |-> src[1],
                             clipBegin |-> clipBegin[1],
                             clipEnd   |-> clipEnd[1],
                             duration  |-> calculateDuration(clipBegin[1], clipEnd[1]) ])

\* The forEach over the par elements: elements[`${smilFileName}#${id}`] = audioClip.
RECURSIVE parLoop(_, _, _)
parLoop(elements, parElements, smilFileName) ==
    IF Len(parElements) = 0 THEN elements
    ELSE LET element   == parElements[1]
             id        == getAttribute(element, "id")
             audioClip == extractAudioClip(element)
             next      == IF TruthyString(id) /\ audioClip # None
                          THEN SetProp(elements, smilFileName \o "#" \o id[1], audioClip[1])
                          ELSE elements
         IN  parLoop(next, Tail(parElements), smilFileName)

parseSmil(t, smilFileName) ==
    IF select(<<SelElement("smil")>>, t) = None
    THEN [threw |-> TRUE]
    ELSE [ threw    |-> FALSE,
           metadata |-> extractMetadata(selectAll(<<SelElement("meta")>>, t)),
           elements |-> parLoop(<<>>, selectAll(<<SelElement("par")>>, t), smilFileName) ]

\* The audio elements of a par: with all three attributes, with one of them
\* absent or empty.
Audio(attrs) == XElement("audio", attrs, <<>>)

FullAudio(src, b, e) == Audio([src |-> src, clipBegin |-> b, clipEnd |-> e])

\* The children lists of a par: a text reference, then no audio, one audio,
\* an audio inside a nested seq, or two audios.
ParBodies ==
    { <<>>,
      <<FullAudio("audio01.mp3", "0:00:00", "0:00:30.500")>>,
      <<FullAudio("audio02.mp3", "0:59:30", "0:00:30s")>>,
      <<Audio([clipBegin |-> "0:00:00", clipEnd |-> "0:00:30"])>>,
      <<FullAudio("", "0:00:00", "0:00:30")>>,
      <<Audio([src |-> "audio01.mp3", clipBegin |-> "0:00:00"])>>,
      <<Audio([src |-> "audio01.mp3", clipEnd |-> "0:00:30"]),
        FullAudio("audio02.mp3", "0:00:30", "1:00:00")>>,
      <<XElement("seq", <<>>, <<FullAudio("audio03.mp3", "0:00:30.500", "1:00:30.500")>>)>> }

ParIds == {"tcp1", "tcp2", ""}

ParElements ==
    { XElement("par", [id |-> id], <<XElement("text", [src |-> "c.xml#d"], <<>>)>> \o body) :
        id \in ParIds, body \in ParBodies }
    \cup { XElement("par", <<>>, body) : body \in ParBodies }

ParLists == UNION { [1..n -> ParElements] : n \in 0..MaxPars }

SmilHead ==
    XElement("head", <<>>, <<XElement("meta", [name |-> "dtb:totalElapsedTime", content |-> "0:00:00"], <<>>)>>)

\* A smil with its pars in one seq of the body, and a document without a
\* smil element.
SmilDocs ==
    { XRoot(<<XElement("smil", <<>>,
                <<SmilHead, XElement("body", <<>>, <<XElement("seq", [id |-> "mseq"], pars)>>)>>)>>) :
        pars \in ParLists }
    \cup { XRoot(<<XElement("root", <<>>, <<>>)>>),
           XRoot(<<XElement("root", <<>>, <<XElement("smil", <<>>, <<>>)>>)>>) }

SmilFileNames == {"chapter1.smil", "2.smil"}

-----------------------------------------------------------------------------
(* parseOpf of lib/opf.ts.                                                 *)

\* metadataMapping of parseOpf.
metadataMapping ==
    [ n \in {"dc:Title", "dc:Creator", "dc:Identifier", "dc:Subject", "dc:Description",
             "dc:Publisher", "dc:Date", "dc:Language", "dc:Source", "dc:Format"} |->
        CASE n = "dc:Title"       -> "title"
          [] n = "dc:Creator"     -> "creator"
          [] n = "dc:Identifier"  -> "identifier"
          [] n = "dc:Subject"     -> "subject"
          [] n = "dc:Description" -> "description"
          [] n = "dc:Publisher"   -> "publisher"
          [] n = "dc:Date"        -> "date"
          [] n = "dc:Language"    -> "language"
          [] n = "dc:Source"      -> "source"
          [] n = "dc:Format"      -> "format" ]

\* metadataMapping[element.name]: the mapped key, the member inherited from
\* Object.prototype as the property key it turns into, or None for undefined.
metadataKeyOf(name) ==
    IF name \in DOMAIN metadataMapping THEN Some(metadataMapping[name])
    ELSE IF name = "constructor" THEN Some("function Object() { [native code] }")
    ELSE IF name \in ObjectPrototypeNames THEN Some("function " \o name \o "() { [native code] }")
    ELSE None

\* The forEach over dcMetadataElements:
\* metadata[metadataKey] = select('text', element)?.value.
dcLoop(metadata, dcMetadataElements) ==
    LET RECURSIVE loop(_, _)
        loop(md, els) ==
            IF Len(els) = 0 THEN md
            ELSE LET element     == els[1]
                     metadataKey == metadataKeyOf(element.name)
                     text        == select(<<SelType("text")>>, element)
                 IN  loop(IF metadataKey # None
                          THEN SetProp(md, metadataKey[1], IF text = None THEN Undefined ELSE Str(text[1].value))
                          ELSE md,
                          Tail(els))
    IN  loop(metadata, dcMetadataElements)

\* Object.assign(target, {...target, ...source}): every own entry of source
\* is assigned to target, in the order of source's keys.
objectAssign(target, source) ==
    LET RECURSIVE loop(_, _)
        loop(t, s) ==
            IF Len(s) = 0 THEN t
            ELSE loop(SetProp(t, s[1].key, s[1].value), Tail(s))
    IN  loop(target, source)

\* attributes.x || ''.
OrEmpty(v) == IF TruthyString(v) THEN v[1] ELSE ""

manifestOf(t) ==
    LET itemElements == selectAll(<<SelElement("manifest"), SelElement("item")>>, t)
    IN  [ j \in 1..Len(itemElements) |->
            [ id        |-> OrEmpty(getAttribute(itemElements[j], "id")),
              href      |-> OrEmpty(getAttribute(itemElements[j], "href")),
              mediaType |-> OrEmpty(getAttribute(itemElements[j], "media-type")) ] ]

spineOf(t) ==
    LET itemrefElements == selectAll(<<SelElement("spine"), SelElement("itemref")>>, t)
    IN  [ j \in 1..Len(itemrefElements) |->
            [ idref  |-> OrEmpty(getAttribute(itemrefElements[j], "idref")),
              linear |-> getAttribute(itemrefElements[j], "linear") # Some("no") ] ]

parseOpf(t) ==
    IF select(<<SelElement("package")>>, t) = None
    THEN [threw |-> TRUE]
    ELSE LET dcMetadataElements == selectAll(<<SelElement("dc-metadata"), SelAny>>, t)
             xMetadataElements  == selectAll(<<SelElement("x-metadata"), SelElement("meta")>>, t)
             xMetadata          == extractMetadata(xMetadataElements)
         IN  [ threw    |-> FALSE,
               metadata |-> objectAssign(dcLoop(<<>>, dcMetadataElements), xMetadata),
               manifest |-> manifestOf(t),
               spine    |-> spineOf(t) ]

\* The children of dc-metadata: Dublin Core elements with a text, without
\* one, with the text inside a nested element, an element the mapping does
\* not list, an element named like a member of Object.prototype, and the
\* white space between elements.
DcChildren ==
    { XElement("dc:Title", <<>>, <<XText("Book")>>),
      XElement("dc:Title", <<>>, <<XText("Other")>>),
      XElement("dc:Creator", <<>>, <<XText("Ann")>>),
      XElement("dc:Creator", <<>>, <<>>),
      XElement("dc:Rights", <<>>, <<XText("free")>>),
      XElement("constructor", <<>>, <<XText("c")>>),
      XText("\n") }

DcChildLists == UNION { [1..n -> DcChildren] : n \in 0..MaxDc }

\* The children of x-metadata.
XMetaChildren ==
    { XElement("meta", [name |-> n, content |-> c], <<>>) : n \in {"title", "dtb:uid"}, c \in {"M", ""} }
    \cup { XElement("meta", [name |-> "title", content |-> "N"], <<>>),
           XElement("meta", [name |-> "creator"], <<>>),
           XElement("other", [name |-> "title", content |-> "O"], <<>>) }

XMetaLists == UNION { [1..n -> XMetaChildren] : n \in 0..MaxXMeta }

ManifestAndSpine ==
    { <<>>,
      << XElement("manifest", <<>>,
            << XElement("item", ("id" :> "ncx") @@ ("href" :> "nav.ncx") @@ ("media-type" :> "application/x-dtbncx+xml"), <<>>),
               XElement("item", [id |-> "s1"], <<>>) >>),
         XElement("spine", <<>>,
            << XElement("itemref", [idref |-> "s1"], <<>>),
               XElement("itemref", [idref |-> "s2", linear |-> "no"], <<>>),
               XElement("itemref", <<>>, <<>>) >>) >> }

\* A package, and the documents without one.
OpfPackages ==
    { XRoot(<<XElement("package", <<>>,
                <<XElement("metadata", <<>>,
                     <<XElement("dc-metadata", <<>>, dc), XElement("x-metadata", <<>>, x)>>)>> \o rest)>>) :
        dc \in DcChildLists, x \in XMetaLists, rest \in ManifestAndSpine }
    \cup { XRoot(<<XElement("root", <<>>, <<>>)>>),
           XRoot(<<XElement("root", <<>>, <<XElement("package", <<>>, <<>>)>>)>>),
           XRoot(<<XElement("root", <<>>, <<XElement("dc-metadata", <<>>, <<XElement("dc:Title", <<>>, <<XText("Book")>>)>>)>>)>>) }

-----------------------------------------------------------------------------
(* parseDtb of lib/dtb.ts.                                                 *)

DtbMetadataKeys ==
    [ k \in {"creator", "title", "publisher", "date", "identifier", "description",
             "format", "language", "source", "subject"} |->
        CASE k = "creator"     -> "dc:Creator"
          [] k = "title"       -> "dc:Title"
          [] k = "publisher"   -> "dc:Publisher"
          [] k = "date"        -> "dc:Date"
          [] k = "identifier"  -> "dc:Identifier"
          [] k = "description" -> "dc:Description"
          [] k = "format"      -> "dc:Format"
          [] k = "language"    -> "dc:Language"
          [] k = "source"      -> "dc:Source"
          [] k = "subject"     -> "dc:Subject" ]

\* metadata[key] || '': a stored string is never empty and an array is truthy.
OrEmptyValue(v) == IF v = Undefined THEN Str("") ELSE v

\* A document without a dtbook element is refused.
parseDtbOfDtbook(t) ==
    IF select(<<SelElement("dtbook")>>, t) = None
    THEN [threw |-> TRUE]
    ELSE LET metadata == extractMetadata(selectAll(<<SelElement("meta")>>, t))
         IN  [ threw    |-> FALSE,
               metadata |-> [ k \in DOMAIN DtbMetadataKeys |-> OrEmptyValue(GetProp(metadata, DtbMetadataKeys[k])) ],
               tree     |-> t ]

parseDtb(t) ==
    LET metaElements == selectAll(<<SelElement("meta")>>, t)
        metadata     == extractMetadata(metaElements)
    IN  [ threw    |-> FALSE,
          metadata |-> [ k \in DOMAIN DtbMetadataKeys |-> OrEmptyValue(GetProp(metadata, DtbMetadataKeys[k])) ],
          tree     |-> t ]

\* The <meta> elements of a DTBook head.
DtbMetas ==
    { XElement("meta", [name |-> n, content |-> c], <<>>) :
        n \in {"dc:Title", "dc:Creator", "dtb:uid"}, c \in {"x", ""} }

DtbMetaLists == UNION { [1..n -> DtbMetas] : n \in 0..MaxXMeta }

\* A dtbook with a head, documents with another root element, with and
\* without a head, and an empty root.
DtbDocs ==
    { XRoot(<<XElement(r, <<>>, <<XElement("head", <<>>, metas), XElement("book", <<>>, <<>>)>>)>>) :
        r \in {"dtbook", "package"}, metas \in DtbMetaLists }
    \cup { XRoot(<<XElement("root", <<>>, metas)>>) : metas \in DtbMetaLists }

-----------------------------------------------------------------------------
(* The trees findElement and findElements are called on.                   *)

FindTagNames == {"a", "b"}

\* The trees of n nodes: a text, or an element named a or b over a forest.
RECURSIVE FindTrees(_)
RECURSIVE FindForests(_)
FindTrees(n) ==
    (IF n = 1 THEN {XText("t")} ELSE {})
    \cup { XElement(name, <<>>, f) : name \in FindTagNames, f \in FindForests(n - 1) }

FindForests(n) ==
    IF n = 0 THEN {<<>>}
    ELSE UNION { { <<t>> \o rest : t \in FindTrees(k), rest \in FindForests(n - k) } : k \in 1..n }

\* The Parent nodes of at most MaxNodes nodes: elements and roots.
FindParents ==
    UNION { { t \in FindTrees(n) : t.type = "element" } \cup { XRoot(f) : f \in FindForests(n - 1) } :
            n \in 1..MaxNodes }

\* The tag names asked for: the names of the trees and one that none has.
FindQueries == FindTagNames \cup {"c"}

-----------------------------------------------------------------------------
(* The calls of the parsers and utilities.                                 *)

LibFunctions == {"parseTime", "calculateDuration", "extractMetadata", "parseNcx", "parseNcxFind", "parseSmil",
                 "parseOpf", "parseDtb", "findElement", "findElements"}

ArgsOf(f) ==
    CASE f = "parseTime"         -> { [timeStr |-> t] : t \in TimeInputs }
      [] f = "calculateDuration" -> { [startTime |-> a, endTime |-> b] : a, b \in ClipTimes }
      [] f = "extractMetadata"   -> { [metaElements |-> l] : l \in MetaInputLists }
      [] f = "parseNcx"          -> { [tree |-> t] : t \in NcxDocs }
      [] f = "parseNcxFind"      -> { [tree |-> t] : t \in NcxDocs }
      [] f = "parseSmil"         -> { [tree |-> t, smilFileName |-> n] : t \in SmilDocs, n \in SmilFileNames }
      [] f = "parseOpf"          -> { [tree |-> t] : t \in OpfPackages }
      [] f = "parseDtb"          -> { [tree |-> t] : t \in DtbDocs }
      [] f = "findElement"       -> { [tree |-> t, tagName |-> n] : t \in FindParents, n \in FindQueries }
      [] f = "findElements"      -> { [tree |-> t, tagName |-> n] : t \in FindParents, n \in FindQueries }

InitLib ==
    /\ pc = "idle"
    /\ fn \in LibFunctions
    /\ arg \in ArgsOf(fn)
    /\ ret = None
    /\ tree = ElementNode("container", <<>>)
    /\ tagName = {}
    /\ itemsPerPage = 1
    /\ basePath = "/"
    /\ parts = <<>>
    /\ totalParts = 0
    /\ pages = <<>>
    /\ totalPages = Finite(0)
    /\ i = 0
    /\ fmt = "none"
    /\ doc = [name |-> "root", children |-> <<>>]
    /\ newValues = <<>>
    /\ createIfMissing = TRUE
    /\ updatedKeys = {}
    /\ pos = [c |-> 1, o |-> 1]
    /\ callNo = 1
    /\ docBefore = doc
    /\ docFirst = None

\* A call of parseTime(timeStr).
CallParseTime ==
    /\ pc = "idle"
    /\ fn = "parseTime"
    /\ ret' = parseTime(TimeStr(arg.timeStr))
    /\ pc' = "returned"
    /\ UNCHANGED <<fn, arg, splitVars, updVars>>

\* The caller hands the milliseconds parseTime returned to formatTime, in a
\* process whose time zone has the offset tz.
CallFormatTime ==
    /\ pc = "returned"
    /\ fn = "parseTime"
    /\ \E tz \in TimezoneOffsets :
          /\ arg' = [milliseconds |-> ret, offset |-> tz, timeStr |-> arg.timeStr]
          /\ ret' = formatTime(ret, tz)
    /\ fn' = "formatTime"
    /\ UNCHANGED <<pc, splitVars, updVars>>

\* A call of calculateDuration(startTime, endTime).
CallCalculateDuration ==
    /\ pc = "idle"
    /\ fn = "calculateDuration"
    /\ ret' = calculateDuration(TimeStr(arg.startTime), TimeStr(arg.endTime))
    /\ pc' = "returned"
    /\ UNCHANGED <<fn, arg, splitVars, updVars>>

\* A call of extractMetadata(metaElements).
CallExtractMetadata ==
    /\ pc = "idle"
    /\ fn = "extractMetadata"
    /\ ret' = extractMetadata(arg.metaElements)
    /\ pc' = "returned"
    /\ UNCHANGED <<fn, arg, splitVars, updVars>>

\* A call of parseNcx, on the tree parseXml returns for its argument.
CallParseNcx ==
    /\ pc = "idle"
    /\ fn = "parseNcx"
    /\ ret' = parseNcx(arg.tree)
    /\ pc' = IF ret'.threw THEN "threw" ELSE "returned"
    /\ UNCHANGED <<fn, arg, splitVars, updVars>>

\* A call of the parseNcx written with findElement().
CallParseNcxFind ==
    /\ pc = "idle"
    /\ fn = "parseNcxFind"
    /\ ret' = parseNcxFind(arg.tree)
    /\ pc' = IF ret'.threw THEN "threw" ELSE "returned"
    /\ UNCHANGED <<fn, arg, splitVars, updVars>>

\* A call of parseSmil, on the tree parseXml returns for its first argument.
CallParseSmil ==
    /\ pc = "idle"
    /\ fn = "parseSmil"
    /\ ret' = parseSmil(arg.tree, arg.smilFileName)
    /\ pc' = IF ret'.threw THEN "threw" ELSE "returned"
    /\ UNCHANGED <<fn, arg, splitVars, updVars>>

\* A call of parseOpf, on the tree parseXml returns for its argument.
CallParseOpf ==
    /\ pc = "idle"
    /\ fn = "parseOpf"
    /\ ret' = parseOpf(arg.tree)
    /\ pc' = IF ret'.threw THEN "threw" ELSE "returned"
    /\ UNCHANGED <<fn, arg, splitVars, updVars>>

\* A call of parseDtb, on the tree parseXml returns for its argument.
CallParseDtb ==
    /\ pc = "idle"
    /\ fn = "parseDtb"
    /\ ret' = parseDtb(arg.tree)
    /\ pc' = IF ret'.threw THEN "threw" ELSE "returned"
    /\ UNCHANGED <<fn, arg, splitVars, updVars>>

\* A call of findElement(tree, tagName).
CallFindElement ==
    /\ pc = "idle"
    /\ fn = "findElement"
    /\ ret' = findElement(arg.tree, arg.tagName)
    /\ pc' = "returned"
    /\ UNCHANGED <<fn, arg, splitVars, updVars>>

\* A call of findElements(tree, tagName).
CallFindElements ==
    /\ pc = "idle"
    /\ fn = "findElements"
    /\ ret' = findElements(arg.tree, arg.tagName)
    /\ pc' = "returned"
    /\ UNCHANGED <<fn, arg, splitVars, updVars>>

NextLib ==
    \/ CallParseTime \/ CallFormatTime \/ CallCalculateDuration \/ CallExtractMetadata
    \/ CallParseNcx \/ CallParseNcxFind \/ CallParseSmil
    \/ CallParseOpf \/ CallParseDtb \/ CallFindElement \/ CallFindElements

SpecLib == InitLib /\ [][NextLib]_vars

-----------------------------------------------------------------------------
(* Properties of the splitter and the paginator.                           *)

\* The 1-based positions of the direct children that pass the test.
MatchingChildren == { j \in 1..Len(tree.children) : Matches(mapTest(tagName), tree.children[j]) }

\* The positions that end a part: every matching direct child, and the last
\* child when it does not match.
PartEnds ==
    MatchingChildren \cup
        (IF Len(tree.children) > 0 /\ Len(tree.children) \notin MatchingChildren
         THEN {Len(tree.children)} ELSE {})

\* The k-th smallest position of PartEnds, and 0 for k = 0.
PartEnd(k) == IF k = 0 THEN 0 ELSE CHOOSE e \in PartEnds : Cardinality({x \in PartEnds : x <= e}) = k

\* C1: splitDaisyTreeByTag's parts are the runs of direct children that end
\* at each matching direct child, plus one final run of the children after
\* the last match; their number is the number of matching direct children,
\* plus one when the last child does not match; totalParts = parts.length.
C1_SplitParts ==
    pc = "splitDone" =>
        /\ totalParts = Len(parts)
        /\ Len(parts) = Cardinality(PartEnds)
        /\ Len(parts) = Cardinality(MatchingChildren)
                          + (IF Len(tree.children) > 0 /\ Len(tree.children) \notin MatchingChildren
                             THEN 1 ELSE 0)
        /\ \A k \in 1..Len(parts) :
              /\ parts[k].type = "root"
              /\ parts[k].children = SubSeq(tree.children, PartEnd(k - 1) + 1, PartEnd(k))

\* A split with a match in the middle and unmatched children after it.
C1_Witness ==
    /\ pc = "splitDone"
    /\ Len(parts) = 2
    /\ Len(parts[1].children) = 2
    /\ Len(tree.children) \notin MatchingChildren

\* C2: for N >= 1 parts and itemsPerPage >= 1 paginateDaisyTree returns
\* ceil(N / itemsPerPage) pages, page k holding parts (k-1)*itemsPerPage ..
\* min(k*itemsPerPage, N) - 1 in order; zero parts give zero pages.
C2_PageCount ==
    (pc = "done" /\ itemsPerPage >= 1) =>
        LET N == Len(parts)
            P == Len(pages)
        IN  IF N = 0
            THEN pages = <<>>
            ELSE /\ P * itemsPerPage >= N
                 /\ (P - 1) * itemsPerPage < N
                 /\ \A k \in 1..P :
                       LET first == (k - 1) * itemsPerPage
                           last  == Min(k * itemsPerPage, N) - 1
                       IN  /\ Len(pages[k].data) = last - first + 1
                           /\ \A j \in 1..Len(pages[k].data) : pages[k].data[j] = parts[first + j]
                           /\ k < P => Len(pages[k].data) = itemsPerPage
                           /\ k = P => (1 <= Len(pages[k].data) /\ Len(pages[k].data) <= itemsPerPage)

\* Two pages, the last one shorter than the page size.
C2_Witness ==
    /\ pc = "done"
    /\ itemsPerPage = 2
    /\ Len(pages) = 2
    /\ Len(pages[2].data) = 1

\* C3: page k of P has current = B k; prev = B (k-1) and first = B 1 exactly
\* when k > 1; next = B (k+1) and last = B P exactly when k < P.
C3_PageUrls ==
    pc = "done" =>
        LET P == Len(pages)
        IN  \A k \in 1..P :
               /\ pages[k].url.current = basePath \o ToString(k)
               /\ pages[k].url.prev  = (IF k > 1 THEN Some(basePath \o ToString(k - 1)) ELSE None)
               /\ pages[k].url.first = (IF k > 1 THEN Some(basePath \o ToString(1)) ELSE None)
               /\ pages[k].url.next  = (IF k < P THEN Some(basePath \o ToString(k + 1)) ELSE None)
               /\ pages[k].url.last  = (IF k < P THEN Some(basePath \o ToString(P)) ELSE None)

\* Three pages: the middle one has all four links.
C3_Witness ==
    /\ pc = "done"
    /\ Len(pages) = 3
    /\ pages[2].url.prev # None
    /\ pages[2].url.next # None

\* A node without its descendants.
Childless(node) == [node EXCEPT !.children = <<>>]

ChildlessAll(nodes) == [j \in DOMAIN nodes |-> Childless(nodes[j])]

\* C4: only direct children split: the parts are those of the tree whose
\* direct children have lost their descendants.
C4_DirectChildrenOnly ==
    pc = "splitDone" =>
        LET flat == [tree EXCEPT !.children = ChildlessAll(tree.children)]
            r    == splitDaisyTreeByTag(flat, mapTest(tagName))
        IN  /\ totalParts = r.totalParts
            /\ Len(parts) = Len(r.parts)
            /\ \A k \in 1..Len(parts) : ChildlessAll(parts[k].children) = r.parts[k].children

\* A direct child that does not match holds a nested element that does, and
\* children follow it.
C4_Witness ==
    /\ pc = "splitDone"
    /\ \E j \in 1..Len(tree.children) :
          /\ j < Len(tree.children)
          /\ ~Matches(mapTest(tagName), tree.children[j])
          /\ \E n \in 1..Len(tree.children[j].children) :
                Matches(mapTest(tagName), tree.children[j].children[n])

\* C5: no children give zero parts; children none of which matches give one
\* part holding all of them in order.
C5_EmptyAndNoMatch ==
    pc = "splitDone" =>
        /\ Len(tree.children) = 0 => (parts = <<>> /\ totalParts = 0)
        /\ (Len(tree.children) > 0 /\ MatchingChildren = {}) =>
              /\ totalParts = 1
              /\ Len(parts) = 1
              /\ parts[1].children = tree.children

\* Only text and comment children, under a test that names a tag.
C5_Witness ==
    /\ pc = "splitDone"
    /\ tagName # {}
    /\ Len(tree.children) >= 2
    /\ \A j \in 1..Len(tree.children) : tree.children[j].type # "element"
    /\ \E j \in 1..Len(tree.children) : tree.children[j].type = "comment"
    /\ Len(parts) = 1

-----------------------------------------------------------------------------
(* Properties of the updaters.                                             *)

\* The places <<c, o>> of all items of a tree.
Places(d) == UNION { { <<c, o>> : o \in 1..Len(d.children[c].children) } : c \in 1..Len(d.children) }

ItemAt(d, p) == d.children[p[1]].children[p[2]]

\* The places of the items the running call found in the tree, and of those
\* it has appended: an updater only overwrites in place and pushes at the end.
OldPlaces == Places(docBefore)

NewPlaces == Places(doc) \ Places(docBefore)

\* The names the <meta> elements of a tree carry.
CarriedNames(d) == UNION { NameOf(ItemAt(d, p)) : p \in { q \in Places(d) : IsMeta(ItemAt(d, q)) } }

\* The appended <meta> elements named k.
NewMetas(k) == { p \in NewPlaces : IsMeta(ItemAt(doc, p)) /\ NameOf(ItemAt(doc, p)) = {k} }

KeysOfNewValues == { newValues[j].key : j \in 1..Len(newValues) }

\* Every key is a non-empty string and every value is defined.
PlainNewValues == \A j \in 1..Len(newValues) : newValues[j].key # "" /\ newValues[j].value # Undefined

FirstCallReturned(f) == pc = "done" /\ fmt \in f /\ callNo = 1

\* C6: after one call of the NCX / SMIL updater with createIfMissing, every
\* key no existing <meta> carried is appended exactly once, as a <meta> with
\* name = key and content = String(value) at the end of head, and no key an
\* existing <meta> carried is appended.  (Stated for trees with a head and
\* for non-empty keys with defined values.)
C6_CreateOnceNcxSmil ==
    (/\ FirstCallReturned({"ncx", "smil"})
     /\ createIfMissing
     /\ PlainNewValues
     /\ FirstContainer(docBefore, "head") # {}) =>
        \A j \in 1..Len(newValues) :
            LET k == newValues[j].key
            IN  IF k \notin CarriedNames(docBefore)
                THEN /\ Cardinality(NewMetas(k)) = 1
                     /\ \A p \in NewMetas(k) :
                           /\ p[1] \in FirstContainer(doc, "head")
                           /\ ItemAt(doc, p) = newMetaElement(newValues[j])
                ELSE NewMetas(k) = {}

\* The head's children after a call: what the call found, then one new
\* <meta> per entry whose key no <meta> of the tree carried, in entry order.
DtbHeadAsClaimed ==
    LET h       == CHOOSE c \in FirstContainer(docBefore, "head") : TRUE
        missing == SelectSeq(newValues, LAMBDA e : e.key \notin CarriedNames(docBefore))
        added   == SubSeq(doc.children[h].children,
                          Len(docBefore.children[h].children) + 1, Len(doc.children[h].children))
    IN  /\ Len(doc.children[h].children) >= Len(docBefore.children[h].children)
        /\ added = [j \in 1..Len(missing) |-> newMetaElement(missing[j])]
        /\ \A c \in 1..Len(doc.children) :
              c # h => Len(doc.children[c].children) = Len(docBefore.children[c].children)

\* C7: after one call of updateDtbMetadataFromTree with createIfMissing on a
\* tree with a head, every key no existing <meta> of the tree carried is
\* appended exactly once after the previous children of head, in key order,
\* and the keys an existing <meta> carried are not appended.
C7_CreateOnceDtb ==
    (FirstCallReturned({"dtb"}) /\ createIfMissing) => DtbHeadAsClaimed

\* C7 holds of the code for the keys that are not the empty string.
C7_NonEmptyKeys ==
    (FirstCallReturned({"dtb"}) /\ createIfMissing /\ "" \notin KeysOfNewValues) => DtbHeadAsClaimed

\* The number of <meta> elements of a tree.
MetaCount(d) == Cardinality({ p \in Places(d) : IsMeta(ItemAt(d, p)) })

SecondCallReturned(f) == pc = "done" /\ fmt \in f /\ callNo = 2

\* C8: the second of two calls of the NCX / SMIL updater with the same
\* newValues and createIfMissing leaves as many <meta> elements as the first.
\* (Stated for non-empty keys with defined values.)
C8_TwiceSameCountNcxSmil ==
    (SecondCallReturned({"ncx", "smil"}) /\ createIfMissing /\ PlainNewValues) =>
        MetaCount(doc) = MetaCount(docFirst[1])

\* The children of every container named n.
ChildrenOf(d, n) == [c \in { x \in 1..Len(d.children) : d.children[x].name = n } |-> d.children[c].children]

\* C9: the second of two calls of updateOpfMetadataFromTree with the same
\* newMetadata and createIfMissing leaves the children of dc-metadata and
\* x-metadata as the first call left them.  (Stated for defined values.)
C9_TwiceSameChildrenOpf ==
    (/\ SecondCallReturned({"opf"})
     /\ createIfMissing
     /\ \A j \in 1..Len(newValues) : newValues[j].value # Undefined) =>
        /\ ChildrenOf(doc, "dc-metadata") = ChildrenOf(docFirst[1], "dc-metadata")
        /\ ChildrenOf(doc, "x-metadata") = ChildrenOf(docFirst[1], "x-metadata")

\* C10: when an updater returns, every <meta> that existed before the call
\* and whose name is a key of newValues has content String(newValues[name])
\* and its other attributes as before; for OPF every Dublin Core child of
\* dc-metadata whose tag is a key has that value as its text.  (Stated for
\* non-empty keys with defined values.)
C10_ExistingUpdated ==
    (pc = "done" /\ fmt \in {"dtb", "ncx", "smil", "opf"} /\ PlainNewValues) =>
        \A p \in OldPlaces :
            LET old == ItemAt(docBefore, p)
                new == ItemAt(doc, p)
            IN  /\ (IsMeta(old) /\ NameOf(old) \subseteq KeysOfNewValues /\ NameOf(old) # {}) =>
                      /\ new.attributes["content"] = StringOf(Lookup(newValues, old.attributes["name"]))
                      /\ \A a \in DOMAIN old.attributes \ {"content"} :
                            a \in DOMAIN new.attributes /\ new.attributes[a] = old.attributes[a]
                /\ (/\ fmt = "opf"
                    /\ docBefore.children[p[1]].name = "dc-metadata"
                    /\ old.type = "element"
                    /\ StartsWith(old.name, "dc:")
                    /\ old.name \in KeysOfNewValues) =>
                      new.text = Some(StringOf(Lookup(newValues, old.name)))

\* The container the returned call needed was absent from the tree it was
\* given: head for DTB, NCX and SMIL; for OPF dc-metadata when a dc:* key was
\* left to create, x-metadata when any other key was left to create.
ContainerMissing ==
    IF fmt = "opf"
    THEN /\ createIfMissing
         /\ \E j \in 1..Len(newValues) :
               /\ newValues[j].key \notin updatedKeys
               /\ IF StartsWith(newValues[j].key, "dc:")
                  THEN FirstContainer(docBefore, "dc-metadata") = {}
                  ELSE FirstContainer(docBefore, "x-metadata") = {}
    ELSE FirstContainer(docBefore, "head") = {}

\* C11: no updater returns normally from a tree that lacks the container it
\* needs.
C11_MissingContainerFails == pc = "done" => ~ContainerMissing

\* C11 holds of updateDtbMetadataFromTree, and of updateOpfMetadataFromTree
\* for x-metadata.
C11_DtbAndXMetadata ==
    (pc = "done" /\ fmt \in {"dtb", "opf"}) =>
        IF fmt = "dtb" THEN ~ContainerMissing
        ELSE ~(/\ createIfMissing
               /\ FirstContainer(docBefore, "x-metadata") = {}
               /\ \E j \in 1..Len(newValues) :
                     newValues[j].key \notin updatedKeys /\ ~StartsWith(newValues[j].key, "dc:"))

\* The key an item is updated under: the name attribute of a <meta>, the tag
\* of any other element.
ElementKey(el) ==
    IF IsMeta(el) THEN NameOf(el)
    ELSE IF el.type = "element" THEN {el.name}
    ELSE {}

\* The tree has the containers and items the call found, in their order, and
\* an item differs only in its content attribute or its text, and only when
\* its name is a key of newValues.
OnlyKeyedContentDiffers ==
    /\ Len(doc.children) = Len(docBefore.children)
    /\ \A c \in 1..Len(doc.children) :
          /\ doc.children[c].name = docBefore.children[c].name
          /\ Len(doc.children[c].children) = Len(docBefore.children[c].children)
    /\ \A p \in OldPlaces :
          LET old == ItemAt(docBefore, p)
              new == ItemAt(doc, p)
          IN  /\ new.type = old.type
              /\ new.name = old.name
              /\ DOMAIN new.attributes \ {"content"} = DOMAIN old.attributes \ {"content"}
              /\ \A a \in DOMAIN old.attributes \ {"content"} : new.attributes[a] = old.attributes[a]
              /\ new # old => (ElementKey(old) # {} /\ ElementKey(old) \subseteq KeysOfNewValues)

\* C12: a call with createIfMissing false that returns leaves the number and
\* order of the children of every element as they were and changes only the
\* content / text of existing elements whose name is a key of newValues.
C12_NoCreateFrame == (pc = "done" /\ ~createIfMissing) => OnlyKeyedContentDiffers

\* C12 holds of the DTB, NCX and SMIL updaters.
C12_HeadUpdaters == (pc = "done" /\ ~createIfMissing /\ fmt # "opf") => OnlyKeyedContentDiffers

-----------------------------------------------------------------------------
(* Properties of the time functions.                                       *)

\* The string is written H+:mm:ss or H+:mm:ss.SSS: digits for the hours, two
\* digits each for minutes and seconds, nothing or a dot and three digits
\* after them, and no other text.
ClockForm(p) ==
    /\ p.kind = "clock"
    /\ p.pre = "" /\ p.post = "" /\ p.sep = ":"
    /\ p.h.ok /\ p.m.ok /\ p.s.ok /\ p.f.ok

ValidTime(p) == ClockForm(p) /\ p.m.value < 60 /\ p.s.value < 60

\* The milliseconds a time string stands for; 0 for a string that is not valid.
MillisecondsOf(p) ==
    IF ValidTime(p)
    THEN (p.h.value * 3600 + p.m.value * 60 + p.s.value) * 1000 + p.f.value
    ELSE 0

TwoDigitHours(p) == IF p.h.value < 10 THEN "0" \o ToString(p.h.value) ELSE ToString(p.h.value)

\* A valid string H:mm:ss.SSS whose hours are written in two digits.
CanonicalTime(p) == ValidTime(p) /\ p.f.text # "" /\ p.h.text = TwoDigitHours(p)

FormattedParsed == pc = "returned" /\ fn = "formatTime"

\* C14 as stated: formatTime(parseTime(t)) = t for every valid t of the form
\* HH:mm:ss.SSS.
C14_RoundTrip ==
    (FormattedParsed /\ CanonicalTime(arg.timeStr)) => ret = TimeStr(arg.timeStr)

\* C14 as amended: formatTime renders the instant as an ISO 8601 date-time
\* without milliseconds.  For a valid t, formatTime(parseTime(t)) is never t,
\* and for hours below 24 in a process whose zone is UTC it is 1970-01-01T,
\* the hours of t in two digits, the minutes and seconds digits of t, and Z.
C14_FormatIso ==
    (FormattedParsed /\ ValidTime(arg.timeStr)) =>
        /\ ret # TimeStr(arg.timeStr)
        /\ (arg.offset = 0 /\ arg.timeStr.h.value < 24) =>
              ret = "1970-01-01T" \o TwoDigitHours(arg.timeStr) \o ":" \o arg.timeStr.m.text
                    \o ":" \o arg.timeStr.s.text \o "Z"

\* A canonical string with one-digit hours and non-zero milliseconds has
\* been parsed and formatted in UTC.
C14_Witness ==
    /\ FormattedParsed
    /\ CanonicalTime(arg.timeStr)
    /\ arg.offset = 0
    /\ arg.timeStr.h.value \in 1..9
    /\ arg.timeStr.f.value > 0
    /\ arg.milliseconds > 0

\* The milliseconds of the clipBegin / clipEnd strings of the SMIL documents.
ClipMilliseconds ==
    [ t \in {"0:00:00", "0:00:30", "0:00:30.500", "0:59:30", "1:00:00", "1:00:30.500", "0:00:30s"} |->
        CASE t = "0:00:00"     -> 0
          [] t = "0:00:30"     -> 30000
          [] t = "0:00:30.500" -> 30500
          [] t = "0:59:30"     -> 3570000
          [] t = "1:00:00"     -> 3600000
          [] t = "1:00:30.500" -> 3630500
          [] t = "0:00:30s"    -> 0 ]

\* max(0, end - start).
DurationBetween(start, end) == IF end > start THEN end - start ELSE 0

\* C15: calculateDuration(start, end) is the milliseconds of end minus those
\* of start when that is positive and 0 otherwise, an unparsable string
\* counting as 0; it is never negative; and the duration of every AudioClip
\* of parseSmil is that value for its clipBegin and clipEnd.
C15_DurationReference ==
    /\ (pc = "returned" /\ fn = "calculateDuration") =>
          /\ ret >= 0
          /\ ret = DurationBetween(MillisecondsOf(arg.startTime), MillisecondsOf(arg.endTime))
    /\ (pc = "returned" /\ fn = "parseSmil") =>
          \A j \in 1..Len(ret.elements) :
              LET clip == ret.elements[j].value
              IN  /\ clip.duration >= 0
                  /\ clip.duration = DurationBetween(ClipMilliseconds[clip.clipBegin],
                                                     ClipMilliseconds[clip.clipEnd])

\* A duration was taken between two valid strings, the end before the start.
C15_Witness ==
    /\ pc = "returned" /\ fn = "calculateDuration"
    /\ ValidTime(arg.startTime) /\ ValidTime(arg.endTime)
    /\ MillisecondsOf(arg.endTime) < MillisecondsOf(arg.startTime)
    /\ MillisecondsOf(arg.endTime) > 0
    /\ ret = 0

\* C16: parseTime returns S*1000 + mmm for the seconds form S.mmms.
C16_SecondsForm ==
    (pc = "returned" /\ fn = "parseTime" /\ arg.timeStr.kind = "seconds") =>
        ret = arg.timeStr.h.value * 1000 + arg.timeStr.f.value

-----------------------------------------------------------------------------
(* Properties of extractMetadata.                                          *)

ExtractReturned == pc = "returned" /\ fn = "extractMetadata"

\* The input elements that have name = k and a content attribute, in input
\* order, and their contents.
CarriersOf(k) ==
    SelectSeq(arg.metaElements,
              LAMBDA e : getAttribute(e, "name") = Some(k) /\ getAttribute(e, "content") # None)

ContentsOf(k) == [j \in 1..Len(CarriersOf(k)) |-> CarriersOf(k)[j].attributes["content"]]

\* The names some input element carries together with a content attribute.
CarriedKeys ==
    { e.attributes["name"] :
        e \in { arg.metaElements[j] : j \in { x \in 1..Len(arg.metaElements) :
                  /\ getAttribute(arg.metaElements[x], "name") # None
                  /\ getAttribute(arg.metaElements[x], "content") # None } } }

\* The position of the first input element that carries k with a content.
FirstCarrier(k) ==
    CHOOSE j \in 1..Len(arg.metaElements) :
        /\ getAttribute(arg.metaElements[j], "name") = Some(k)
        /\ getAttribute(arg.metaElements[j], "content") # None
        /\ \A x \in 1..(j - 1) :
              ~(/\ getAttribute(arg.metaElements[x], "name") = Some(k)
                /\ getAttribute(arg.metaElements[x], "content") # None)

OwnValue(metadata, k) == metadata[CHOOSE j \in OwnIndex(metadata, k) : TRUE].value

\* The value of a name is the content of its one element as a scalar, or
\* the sequence of the contents of its n >= 2 elements in input order.
AccumulatedInOrder ==
    \A k \in CarriedKeys :
        /\ OwnIndex(ret, k) # {}
        /\ OwnValue(ret, k) =
              IF Len(ContentsOf(k)) = 1
              THEN Str(ContentsOf(k)[1])
              ELSE Arr([j \in 1..Len(ContentsOf(k)) |-> Str(ContentsOf(k)[j])])

\* C17: the first content of a name is stored as a scalar; a repeated name
\* holds the sequence of its contents in input order.
C17_ScalarThenSequence == ExtractReturned => AccumulatedInOrder

\* No name or content is the empty string and no name is a member of
\* Object.prototype.
TruthyOwnNames ==
    \A j \in 1..Len(arg.metaElements) :
        LET e == arg.metaElements[j]
        IN  /\ getAttribute(e, "name") \notin {Some(n) : n \in ObjectPrototypeNames \cup {""}}
            /\ getAttribute(e, "content") # Some("")

\* C17 holds of the code for such elements.
C17_TruthyOwnNames == (ExtractReturned /\ TruthyOwnNames) => AccumulatedInOrder

ValueCount(v) == IF v.kind = "array" THEN Len(v.a) ELSE 1

\* The result has exactly the carried names as keys, as many values under a
\* key as elements carry it, and its keys in first-encounter order.
KeysCountsAndOrder ==
    /\ { ret[j].key : j \in 1..Len(ret) } = CarriedKeys
    /\ \A j \in 1..Len(ret) : ValueCount(ret[j].value) = Len(CarriersOf(ret[j].key))
    /\ \A a, b \in 1..Len(ret) : a < b => FirstCarrier(ret[a].key) < FirstCarrier(ret[b].key)

\* C18: extractMetadata skips exactly the elements without a name or without
\* a content attribute.
C18_SkipsExactlyMissing == ExtractReturned => KeysCountsAndOrder

\* C18 holds of the code when, further, no name is an array index.
C18_TruthyOwnNames ==
    (/\ ExtractReturned
     /\ TruthyOwnNames
     /\ \A k \in CarriedKeys : ~IsArrayIndex(k)) => KeysCountsAndOrder

-----------------------------------------------------------------------------
(* Properties of parseNcx.                                                 *)

\* The children of the navMap of the parsed document.
NavMapChildren ==
    LET top == arg.tree.children[1]
    IN  IF top.name = "ncx" /\ Len(top.children) >= 3 THEN top.children[3].children ELSE <<>>

\* The id and nesting depth of every navPoint element among nodes and below
\* them, in document order: an element, then the navPoints nested in it.
RECURSIVE NavPointsInDocumentOrder(_, _)
NavPointsInDocumentOrder(nodes, depth) ==
    IF Len(nodes) = 0 THEN <<>>
    ELSE (IF nodes[1].type = "element" /\ nodes[1].name = "navPoint"
          THEN <<[id |-> nodes[1].attributes["id"], level |-> depth]>>
               \o NavPointsInDocumentOrder(nodes[1].children, depth + 1)
          ELSE <<>>)
         \o NavPointsInDocumentOrder(Tail(nodes), depth)

IdsAndLevels(navPoints) ==
    [j \in 1..Len(navPoints) |-> [id |-> navPoints[j].id, level |-> navPoints[j].level]]

\* C19: parseNcx returns one NavPoint per navPoint element under navMap, in
\* document order, none repeated, each with its nesting depth as level.
C19_OneNavPointPerElement ==
    (pc = "returned" /\ fn = "parseNcx") =>
        IdsAndLevels(ret.navPoints) = NavPointsInDocumentOrder(NavMapChildren, 1)

\* C19 holds of the parser written with findElement() and findDirectChildren().
C19_FindDirectChildren ==
    (pc = "returned" /\ fn = "parseNcxFind") =>
        IdsAndLevels(ret.navPoints) = NavPointsInDocumentOrder(NavMapChildren, 1)

\* C19 holds of parseNcx for documents whose navPoints nest at most two deep.
C19_TwoLevels ==
    (/\ pc = "returned" /\ fn = "parseNcx"
     /\ \A j \in 1..Len(NavPointsInDocumentOrder(NavMapChildren, 1)) :
           NavPointsInDocumentOrder(NavMapChildren, 1)[j].level <= 2) =>
        IdsAndLevels(ret.navPoints) = NavPointsInDocumentOrder(NavMapChildren, 1)

-----------------------------------------------------------------------------
(* Properties of parseSmil.                                                *)

SmilReturned == pc = "returned" /\ fn = "parseSmil"

\* The par elements of the parsed document, in document order.
SmilPars ==
    LET top == arg.tree.children[1]
    IN  IF top.name = "smil" THEN top.children[2].children[1].children ELSE <<>>

\* The audio elements nested in a par at any depth, in document order.
NestedAudios(par) ==
    LET hits == SelectSeq(Walk(par, <<>>), LAMBDA e : e.node.type = "element" /\ e.node.name = "audio")
    IN  [j \in 1..Len(hits) |-> hits[j].node]

ClipAttributes == {"src", "clipBegin", "clipEnd"}

CarriesAll(audio) == ClipAttributes \subseteq DOMAIN audio.attributes

CarriesAllNonEmpty(audio) == CarriesAll(audio) /\ \A a \in ClipAttributes : audio.attributes[a] # ""

KeyOf(id) == arg.smilFileName \o "#" \o id

IsClipOf(clip, audio) ==
    /\ clip.src = audio.attributes["src"]
    /\ clip.clipBegin = audio.attributes["clipBegin"]
    /\ clip.clipEnd = audio.attributes["clipEnd"]

ElementKeys == { ret.elements[j].key : j \in 1..Len(ret.elements) }

\* C20 as stated: elements has the key filename#id exactly when a par with
\* that id attribute has a nested audio carrying src, clipBegin and clipEnd,
\* and the entry holds the attributes of such an audio.
C20_KeyIffAudioWithAll ==
    SmilReturned =>
        /\ ElementKeys \subseteq { KeyOf(id) : id \in ParIds }
        /\ \A id \in ParIds :
              LET withAll == { j \in 1..Len(SmilPars) :
                                 /\ getAttribute(SmilPars[j], "id") = Some(id)
                                 /\ \E k \in 1..Len(NestedAudios(SmilPars[j])) :
                                       CarriesAll(NestedAudios(SmilPars[j])[k]) }
              IN  /\ (KeyOf(id) \in ElementKeys) <=> (withAll # {})
                  /\ (KeyOf(id) \in ElementKeys) =>
                        \E j \in withAll :
                            \E k \in 1..Len(NestedAudios(SmilPars[j])) :
                                /\ CarriesAll(NestedAudios(SmilPars[j])[k])
                                /\ IsClipOf(OwnValue(ret.elements, KeyOf(id)), NestedAudios(SmilPars[j])[k])

\* The par has a non-empty id and its first nested audio carries a non-empty
\* src, clipBegin and clipEnd.
Qualifies(par) ==
    /\ TruthyString(getAttribute(par, "id"))
    /\ Len(NestedAudios(par)) > 0
    /\ CarriesAllNonEmpty(NestedAudios(par)[1])

\* C20 as amended: elements has the key filename#id exactly when a par with
\* that non-empty id has a first nested audio carrying a non-empty src,
\* clipBegin and clipEnd, and the entry holds the attributes of that audio
\* of the last such par.
C20_KeyIffFirstAudio ==
    SmilReturned =>
        /\ ElementKeys \subseteq { KeyOf(id) : id \in ParIds }
        /\ \A id \in ParIds :
              LET pars == { j \in 1..Len(SmilPars) :
                              getAttribute(SmilPars[j], "id") = Some(id) /\ Qualifies(SmilPars[j]) }
              IN  /\ (KeyOf(id) \in ElementKeys) <=> (pars # {})
                  /\ (KeyOf(id) \in ElementKeys) =>
                        LET last == CHOOSE j \in pars : \A x \in pars : x <= j
                        IN  IsClipOf(OwnValue(ret.elements, KeyOf(id)), NestedAudios(SmilPars[last])[1])

\* A par whose first audio lacks an attribute and whose second carries all
\* three was parsed together with a par that gave an entry.
C20_Witness ==
    /\ SmilReturned
    /\ Len(ret.elements) = 1
    /\ \E j \in 1..Len(SmilPars) :
          /\ TruthyString(getAttribute(SmilPars[j], "id"))
          /\ ~Qualifies(SmilPars[j])
          /\ Len(NestedAudios(SmilPars[j])) = 2
          /\ CarriesAllNonEmpty(NestedAudios(SmilPars[j])[2])

-----------------------------------------------------------------------------
(* Properties of parseOpf.                                                 *)

OpfReturned == pc = "returned" /\ fn = "parseOpf"

\* The children of dc-metadata and of x-metadata in a parsed package.
DcMetadataChildren ==
    LET top == arg.tree.children[1]
    IN  IF top.name = "package" THEN top.children[1].children[1].children ELSE <<>>

XMetadataChildren ==
    LET top == arg.tree.children[1]
    IN  IF top.name = "package" THEN top.children[1].children[2].children ELSE <<>>

MappedKeys == { metadataMapping[n] : n \in DOMAIN metadataMapping }

\* Some Dublin Core element of dc-metadata maps to the key k.
DcMapsTo(k) ==
    \E j \in 1..Len(DcMetadataChildren) :
        /\ DcMetadataChildren[j].type = "element"
        /\ DcMetadataChildren[j].name \in DOMAIN metadataMapping
        /\ metadataMapping[DcMetadataChildren[j].name] = k

\* The meta elements of x-metadata that have the name k and a content.
XMetaOf(k) ==
    SelectSeq(XMetadataChildren,
              LAMBDA e : /\ e.type = "element" /\ e.name = "meta"
                         /\ "name" \in DOMAIN e.attributes /\ e.attributes["name"] = k
                         /\ "content" \in DOMAIN e.attributes)

\* The value the meta elements of the key k give: the content of the one
\* element, or the contents of the several in document order.
XMetaValue(k) ==
    IF Len(XMetaOf(k)) = 1 THEN Str(XMetaOf(k)[1].attributes["content"])
    ELSE Arr([j \in 1..Len(XMetaOf(k)) |-> Str(XMetaOf(k)[j].attributes["content"])])

\* C21: when a Dublin Core element of dc-metadata maps to a key and a meta
\* element of x-metadata has that key as its name, the metadata value of the
\* key is the one from the meta element.
C21_MetaOverridesDc ==
    OpfReturned =>
        \A k \in MappedKeys :
            (DcMapsTo(k) /\ Len(XMetaOf(k)) > 0) =>
                /\ OwnIndex(ret.metadata, k) # {}
                /\ OwnValue(ret.metadata, k) = XMetaValue(k)

\* C21 holds when no meta element of the key has an empty content.
C21_NonEmptyContents ==
    OpfReturned =>
        \A k \in MappedKeys :
            (/\ DcMapsTo(k) /\ Len(XMetaOf(k)) > 0
             /\ \A j \in 1..Len(XMetaOf(k)) : XMetaOf(k)[j].attributes["content"] # "") =>
                /\ OwnIndex(ret.metadata, k) # {}
                /\ OwnValue(ret.metadata, k) = XMetaValue(k)

-----------------------------------------------------------------------------
(* Properties of the parsers' errors.                                      *)

\* The node is an element named name, or some node below it is.
RECURSIVE HasElementNamed(_, _)
HasElementNamed(node, name) ==
    \/ node.type = "element" /\ node.name = name
    \/ \E j \in 1..Len(node.children) : HasElementNamed(node.children[j], name)

RequiredElement ==
    [ f \in {"parseOpf", "parseNcx", "parseNcxFind", "parseSmil"} |->
        CASE f = "parseOpf"  -> "package"
          [] f = "parseSmil" -> "smil"
          [] OTHER           -> "ncx" ]

CallEnded == pc \in {"returned", "threw"}

\* C22: parseOpf, parseNcx and parseSmil fail exactly when the document has
\* no package, ncx or smil element, and return no data then; parseDtb does
\* not fail, whatever the root element.
C22_FailsExactlyWithoutRoot ==
    /\ (CallEnded /\ fn \in DOMAIN RequiredElement) =>
          /\ (pc = "threw") <=> ~HasElementNamed(arg.tree, RequiredElement[fn])
          /\ (pc = "threw") => DOMAIN ret = {"threw"}
          /\ (pc = "returned") => "metadata" \in DOMAIN ret
    /\ (fn = "parseDtb" /\ pc # "idle") =>
          /\ pc = "returned"
          /\ ret.tree = arg.tree
          /\ DOMAIN ret.metadata = DOMAIN DtbMetadataKeys

\* parseDtb returned for a document whose root is not dtbook, and with the
\* title of its one dc:Title meta.
C22_Witness ==
    /\ fn = "parseDtb" /\ pc = "returned"
    /\ arg.tree.children[1].name = "root"
    /\ ret.metadata["title"] = Str("x")
    /\ ret.metadata["creator"] = Str("")

\* A parser threw on a document without its element, and returned for one
\* that has the element below the root element.
C22_NestedRootWitness ==
    /\ fn = "parseOpf" /\ pc = "returned"
    /\ arg.tree.children[1].name = "root"

-----------------------------------------------------------------------------
(* Properties of findElement and findElements.                             *)

\* The places of the nodes of a tree: the child indices leading from the
\* tree's own node, <<>>, to the node.
RECURSIVE PlacesOf(_)
PlacesOf(node) ==
    {<<>>} \cup UNION { { <<j>> \o p : p \in PlacesOf(node.children[j]) } : j \in 1..Len(node.children) }

RECURSIVE NodeAtPlace(_, _)
NodeAtPlace(node, p) == IF Len(p) = 0 THEN node ELSE NodeAtPlace(node.children[p[1]], Tail(p))

\* Document order: an ancestor comes before its descendants, and at the
\* first index where two places differ the lower one comes first.
RECURSIVE PlaceBefore(_, _)
PlaceBefore(p, q) ==
    IF Len(q) = 0 THEN FALSE
    ELSE IF Len(p) = 0 THEN TRUE
    ELSE IF p[1] # q[1] THEN p[1] < q[1]
    ELSE PlaceBefore(Tail(p), Tail(q))

\* The places of the elements named tag.
PlacesNamed(t, tag) ==
    { p \in PlacesOf(t) : NodeAtPlace(t, p).type = "element" /\ NodeAtPlace(t, p).name = tag }

\* The result lists the elements named tag, each place once, in document order.
ListsInDocumentOrder(result, t, tag) ==
    \E places \in [1..Len(result) -> PlacesNamed(t, tag)] :
        /\ Len(result) = Cardinality(PlacesNamed(t, tag))
        /\ \A j \in 1..Len(result) : result[j] = NodeAtPlace(t, places[j])
        /\ \A j \in 1..(Len(result) - 1) : PlaceBefore(places[j], places[j + 1])

\* The first element named tag in document order, or None.
FirstNamed(t, tag) ==
    IF PlacesNamed(t, tag) = {} THEN None
    ELSE Some(NodeAtPlace(t, CHOOSE p \in PlacesNamed(t, tag) :
                                 \A q \in PlacesNamed(t, tag) \ {p} : PlaceBefore(p, q)))

\* C23: findElements(tree, tagName) lists all and only the elements named
\* tagName in depth-first pre-order, findElement(tree, tagName) returns the
\* first of them or nothing when there is none, and neither raises.
C23_FindInDocumentOrder ==
    /\ (fn = "findElements" /\ pc # "idle") =>
          /\ pc = "returned"
          /\ ListsInDocumentOrder(ret, arg.tree, arg.tagName)
    /\ (fn = "findElement" /\ pc # "idle") =>
          /\ pc = "returned"
          /\ ret = FirstNamed(arg.tree, arg.tagName)
          /\ ret = (IF Len(findElements(arg.tree, arg.tagName)) = 0 THEN None
                    ELSE Some(findElements(arg.tree, arg.tagName)[1]))

\* findElements listed an element and then one nested in it, after an
\* element of another name.
C23_Witness ==
    /\ fn = "findElements" /\ pc = "returned"
    /\ Len(ret) = 2
    /\ arg.tree.type = "element" /\ arg.tree.name # arg.tagName
    /\ Len(arg.tree.children) = 1
    /\ ret[1] = arg.tree.children[1]
    /\ Len(ret[1].children) = 1
    /\ ret[2] = ret[1].children[1]

-----------------------------------------------------------------------------------------------------------------------------------------------------
(* Termination of paginateDaisyTree.                                       *)

\* C24: paginateDaisyTree terminates and returns a finite list of pages for
\* every tree and every integer itemsPerPage, 0 and the negative ones
\* included: the loop runs while i < totalPages with i growing by one, so the
\* number of pages it is to push, totalPages, is finite in every call.
C24_FinitePageCount == (pc = "loop") => totalPages.finite

\* The steps of a call are taken as long as one is possible.
FairSpecSplit == SpecSplit /\ WF_vars(NextSplit)

\* A call that entered the loop leaves it and returns.
C24_PaginateTerminates == (pc = "loop") ~> (pc = "done")

\* The loop is left whenever itemsPerPage is not 0.
C24_TerminatesUnlessZero == (pc = "loop" /\ itemsPerPage # 0) ~> (pc = "done")

-----------------------------------------------------------------------------
(* Termination of updateNcxMetadataFromTree / updateSmilMetadataFromTree.  *)

\* C25: updateNcxMetadataFromTree and updateSmilMetadataFromTree terminate
\* for every tree and every newValues, an empty-string key and a key with
\* the value undefined included, although the visitor appends to the child
\* list under visit: the list of n children is visited to its end, which it
\* has when the appending stops, after at most MaxKeys elements for each of
\* the n children and for each of the MaxKeys elements first appended.
C25_AppendingStops ==
    (pc = "visit" /\ pos.c <= Len(doc.children)) =>
        LET n == Len(docBefore.children[pos.c].children)
        IN  Len(doc.children[pos.c].children) <= n + (n + MaxKeys) * MaxKeys

\* visit() goes on with the walk as long as a node is left, and returns
\* when none is.
FairSpecUpd == SpecUpd /\ WF_vars(UpdateNcxVisit) /\ WF_vars(UpdateNcxReturn)

\* A call that started its visit returns.
C25_VisitTerminates == (pc = "visit") ~> (pc = "done")

\* A <meta> pushed for the entry marks its key updated when visited.
Markable(e) == e.key # "" /\ e.value # Undefined

\* The visit returns when createIfMissing is false, and when every entry of
\* newValues has a non-empty key and a defined value.
C25_TerminatesWhenMarkable ==
    (pc = "visit" /\ (~createIfMissing \/ \A j \in 1..Len(newValues) : Markable(newValues[j])))
        ~> (pc = "done")

\* The appending stops in those calls.
C25_AppendingStopsWhenMarkable ==
    (/\ pc = "visit" /\ pos.c <= Len(doc.children)
     /\ (~createIfMissing \/ \A j \in 1..Len(newValues) : Markable(newValues[j]))) =>
        LET n == Len(docBefore.children[pos.c].children)
        IN  Len(doc.children[pos.c].children) <= n + (n + MaxKeys) * MaxKeys

-----
(* The splitter and the paginator leave the tree as it was.                *)

\* The node is the direct child of the tree at its address.
IsOriginalChild(node) ==
    /\ "addr" \in DOMAIN node
    /\ node.addr \in 1..Len(tree.children)
    /\ tree.children[node.addr] = node

\* The direct children are at their addresses, in their order.
ChildrenInPlace == \A j \in 1..Len(tree.children) : tree.children[j].addr = j

PartsHoldOriginalChildren ==
    /\ ChildrenInPlace
    /\ \A k \in 1..Len(parts) :
          \A j \in 1..Len(parts[k].children) : IsOriginalChild(parts[k].children[j])
    /\ \A k \in 1..Len(pages) :
          \A m \in 1..Len(pages[k].data) :
              \A j \in 1..Len(pages[k].data[m].children) : IsOriginalChild(pages[k].data[m].children[j])

\* C26: splitDaisyTreeByTag and paginateDaisyTree do not modify the tree:
\* no step of a call changes tree.children, and every node of a part, and of
\* a part on a page, is one of the tree's child nodes itself, not a copy.
C26_TreeUnchanged == [][tree' = tree]_vars /\ []PartsHoldOriginalChildren

\* A page holds a part of two of the tree's children, the second of them an
\* element with children of its own.
C26_Witness ==
    /\ pc = "done"
    /\ Len(pages) >= 1
    /\ Len(pages[1].data) >= 1
    /\ Len(pages[1].data[1].children) = 2
    /\ Len(pages[1].data[1].children[2].children) = 2
    /\ pages[1].data[1].children[2] = tree.children[2]

-----------------------------------------------------------------------------
(* Pagination keeps the content.                                           *)

\* The children of the parts, part after part.
RECURSIVE ChildrenOfParts(_)
ChildrenOfParts(ps) == IF Len(ps) = 0 THEN <<>> ELSE ps[1].children \o ChildrenOfParts(Tail(ps))

\* The parts of the pages, page after page.
RECURSIVE PartsOfPages(_)
PartsOfPages(pgs) == IF Len(pgs) = 0 THEN <<>> ELSE pgs[1].data \o PartsOfPages(Tail(pgs))

\* C27: for itemsPerPage >= 1 the children of the parts of the pages, in page
\* order and part order, are tree.children in the original order; no part is
\* empty; start and end of a page are the 0-based indices of its first and
\* last part, end - start + 1 is the number of its parts, and total is the
\* number of all parts.
C27_PagesKeepContent ==
    (pc = "done" /\ itemsPerPage >= 1) =>
        /\ ChildrenOfParts(PartsOfPages(pages)) = tree.children
        /\ \A j \in 1..Len(tree.children) : tree.children[j].addr = j
        /\ \A k \in 1..Len(pages) :
              /\ \A m \in 1..Len(pages[k].data) : Len(pages[k].data[m].children) >= 1
              /\ pages[k].start = Len(PartsOfPages(SubSeq(pages, 1, k - 1)))
              /\ pages[k].end = Len(PartsOfPages(SubSeq(pages, 1, k))) - 1
              /\ pages[k].end - pages[k].start + 1 = Len(pages[k].data)
              /\ Len(pages[k].data) >= 1
              /\ \A m \in 1..Len(pages[k].data) : pages[k].data[m] = parts[pages[k].start + m]
              /\ pages[k].total = Len(parts)
        /\ Len(PartsOfPages(pages)) = Len(parts)

\* Three children in two parts on two pages of one part each.
C27_Witness ==
    /\ pc = "done" /\ itemsPerPage = 1
    /\ Len(tree.children) = 3
    /\ Len(pages) = 2
    /\ Len(pages[1].data[1].children) = 2
    /\ pages[2].start = 1 /\ pages[2].end = 1

-----------------------------------------------------------------------------
(* The updaters change nothing outside the keys they are given.            *)

\* Every item the call found whose meta name, or tag, is not a key of
\* newValues is as it was: attributes, text and all.
UnkeyedItemsKept ==
    \A p \in OldPlaces :
        (ElementKey(ItemAt(docBefore, p)) \cap KeysOfNewValues = {}) =>
            /\ p \in Places(doc)
            /\ ItemAt(doc, p) = ItemAt(docBefore, p)

\* C28: when an updater returns, every element that existed before the call
\* and whose meta name (for OPF, Dublin Core tag) is not a key of newValues
\* has the attributes, text and children it had; an existing dc:* element
\* keeps its text when newMetadata does not contain its tag.
C28_OtherKeysUntouched == pc = "done" => UnkeyedItemsKept

\* C28 holds of the DTB, NCX and SMIL updaters.
C28_HeadUpdaters == (pc = "done" /\ fmt # "opf") => UnkeyedItemsKept

\* C28 holds of the OPF updater outside dc-metadata.
C28_OpfMetaElements ==
    (pc = "done" /\ fmt = "opf") =>
        \A p \in OldPlaces :
            (/\ docBefore.children[p[1]].name # "dc-metadata"
             /\ ElementKey(ItemAt(docBefore, p)) \cap KeysOfNewValues = {}) =>
                ItemAt(doc, p) = ItemAt(docBefore, p)

-----------------------------------------------------------------------------
(* A failed updater call.                                                  *)

\* C29: whenever an updater call ends with an error the tree is exactly as
\* it was before the call: nothing was overwritten and nothing was appended
\* before the failure.
C29_FailedCallLeavesTree == pc = "threw" => doc = docBefore

\* C29 holds of the errors raised before the first write: a DTB tree
\* without head, an OPF tree without package.
C29_ErrorsBeforeFirstWrite ==
    (pc = "threw" /\ (fmt = "dtb" \/ docBefore.name # "package")) => doc = docBefore

-----------------------------------------------------------------------------
(* The label and src of a NavPoint.                                        *)

\* The navPoint elements among nodes and nested in them.
RECURSIVE NavPointElementsIn(_)
NavPointElementsIn(nodes) ==
    UNION { IF nodes[j].type = "element" /\ nodes[j].name = "navPoint"
            THEN {nodes[j]} \cup NavPointElementsIn(nodes[j].children)
            ELSE {} : j \in 1..Len(nodes) }

\* The children of the element that are elements named n.
OwnChildren(el, n) == SelectSeq(el.children, LAMBDA c : c.type = "element" /\ c.name = n)

\* The text of the navPoint's own navLabel, as a set: empty without one.
OwnLabel(navPoint) ==
    IF Len(OwnChildren(navPoint, "navLabel")) = 0 THEN {}
    ELSE { OwnChildren(navPoint, "navLabel")[1].children[1].children[1].value }

\* The src of the navPoint's own content, '' without one.
OwnSrc(navPoint) ==
    IF Len(OwnChildren(navPoint, "content")) = 0 THEN ""
    ELSE OwnChildren(navPoint, "content")[1].attributes["src"]

\* The label of the entry is absent or empty.
NoLabel(entry) == entry.label = None \/ entry.label = Some("")

\* The entry has the label and the src of the children of its own element.
FromOwnChildren(entry) ==
    \E el \in NavPointElementsIn(NavMapChildren) :
        /\ el.attributes["id"] = entry.id
        /\ IF OwnLabel(el) = {} THEN NoLabel(entry) ELSE entry.label = Some(CHOOSE l \in OwnLabel(el) : TRUE)
        /\ entry.src = OwnSrc(el)

NcxReturned == pc = "returned" /\ fn \in {"parseNcx", "parseNcxFind"}

\* C30: the label and src of each NavPoint of parseNcx come from the
\* navLabel and content children of its own navPoint element; a navPoint
\* without them has no label and the src '', whatever the navPoints nested
\* in it have.
C30_LabelFromOwnChildren ==
    NcxReturned => \A j \in 1..Len(ret.navPoints) : FromOwnChildren(ret.navPoints[j])

\* C30 holds of the navPoints that have a navLabel and a content of their
\* own, and of those without any navPoint nested in them.
C30_OwnWhenPresent ==
    NcxReturned =>
        \A j \in 1..Len(ret.navPoints) :
            (\E el \in NavPointElementsIn(NavMapChildren) :
                /\ el.attributes["id"] = ret.navPoints[j].id
                /\ \/ OwnLabel(el) # {} /\ Len(OwnChildren(el, "content")) > 0
                   \/ Len(OwnChildren(el, "navPoint")) = 0)
                => FromOwnChildren(ret.navPoints[j])

====
